---- MODULE Spec2Model ----
(***************************************************************************)
(* Apollo: the request dispatcher (SystemInterface), the live backup       *)
(* (BackupHandler, mirrored on a Redis store), the playback driver         *)
(* (MediaPlayback) and the request/reply contract of the web layer.        *)
(*                                                                         *)
(* Option<T> is modelled as a sequence: None is <<>>, Some(x) is <<x>>.    *)
(* A Duration is a number of milliseconds.                                 *)
(***************************************************************************)
EXTENDS Integers, Sequences, FiniteSets, TLC

(***************************************************************************)
(* Bounds of the model.                                                    *)
(***************************************************************************)
MaxWindow == 2
MaxChannel == 2
MaxRequesters == 2
MaxRestarts == 1
MaxElapsed == 1
MaxPosition == 1
\* the largest Duration, in milliseconds: stands for Duration::MAX
DURATION_MAX == 2
\* the largest frame coordinate: stands for i32::MAX
I32_MAX == 1
\* the largest position in milliseconds: stands for u64::MAX
U64_MAX == 1000

(***************************************************************************)
(* Program constants.                                                      *)
(***************************************************************************)
\* restore_playlist: the settle delay in milliseconds
DELAY_MILLIS == 500
\* MediaPlayback::seek: the distance from the end of the media when the
\* requested position is past the end
END_MARGIN == 300
\* WebSend::new: capacity of the request channel
WEB_CHANNEL_CAPACITY == 256

None == <<>>
Some(x) == <<x>>
IsSome(o) == o # <<>>
Unwrap(o) == o[1]

VARIABLES
    scope,          \* the part of the input space this run of the model explores
    faults,         \* what may fail in this run: a subset of {"store", "driver", "overflow"}
    server_location, \* whether a backup server is configured (Some) or not (None)
    phase,          \* position of SystemInterface::run: "boot", "serving", "closed"
    windows,        \* SystemInterface.windows
    media_playback, \* SystemInterface.media_playback (the driver)
    backup_handler, \* SystemInterface.backup_handler
    store,          \* the Redis store: the three keys of this node
    web_receive,    \* the mpsc channel of WebRequests: reply handles in order
    rx,             \* per requester: the state of its oneshot reply channel
    trace,          \* the effects of the last step, in program order
    restarts,       \* number of process restarts so far
    before_stop     \* during the recovery: the registry as it was when the
                    \* process stopped

vars == <<scope, faults, server_location, phase, windows, media_playback, backup_handler, store,
          web_receive, rx, trace, restarts, before_stop>>

(***************************************************************************)
(* The inputs.  A run explores one scope: "registry" (the windows, the     *)
(* channels and the recovery), "single" (one window and one channel),      *)
(* "media" (the playlist entries and the time), "geometry" (the frames),   *)
(* "web" (several requesters), "backup" (what the backup is made of:       *)
(* windows, channels and cues), "seek" (the ends of the range of          *)
(* positions, with the clock standing still), "reload" (a store that holds *)
(* keys of this node when the process starts) or "replay" (a store that    *)
(* holds the channels and the playlist an earlier process recorded).       *)
(***************************************************************************)
Scopes == {"registry", "single", "media", "geometry", "web", "backup", "seek",
           "reload", "replay"}

Requesters == IF scope = "web" THEN 1..MaxRequesters ELSE {1}

WindowNumbers == IF scope \in {"registry", "backup"} THEN 1..MaxWindow ELSE {1}

ChannelNumbers == IF scope \in {"registry", "media", "backup", "seek", "replay"} THEN 1..MaxChannel ELSE {1}

Uris == IF scope \in {"media", "backup"} THEN {"video.mp4", "new_video.mp4"} ELSE {"video.mp4"}

PlaybackStates == {"Playing", "Paused"}

Directions ==
    IF scope = "geometry" THEN {"Up", "Down", "Left", "Right"} ELSE {"Down"}

\* in the "seek" scope the first and the last position a u64 can hold
Positions ==
    CASE scope = "media" -> 0..MaxPosition
      [] scope = "seek" -> {0, U64_MAX}
      [] OTHER -> {0}

\* the time since the last update: up to MaxElapsed, or, in the "media"
\* scope, so long that no position can take it
Elapsed ==
    CASE scope = "media" -> 0..MaxElapsed \cup {DURATION_MAX + 1}
      [] scope = "backup" -> 0..MaxElapsed
      [] OTHER -> {0}

\* definitions/media.rs is not part of the sources; the fields are those the
\* code reads and the test constructs.
WindowDefinitions ==
    [window_number : WindowNumbers,
     fullscreen : IF scope = "backup" THEN BOOLEAN ELSE {TRUE},
     dimensions : {None}]

VideoFrames ==
    [top : {0}, left : {0}, height : IF scope = "geometry" THEN {1, 2} ELSE {1},
     width : {1}]

VideoFramesWithWindow ==
    [window_number : {1}, top : {0}, left : {0}, height : {1}, width : {1}]

MediaChannels ==
    [channel : ChannelNumbers,
     video_frame : IF scope = "geometry"
                   THEN {None} \cup {Some(f) : f \in VideoFramesWithWindow}
                   ELSE {None},
     audio_device : {None},
     loop_media : {None}]

MediaCues == [channel : ChannelNumbers, uri : Uris, loop_media : {None}]

ChannelStates == [channel : ChannelNumbers, state : PlaybackStates]

ChannelSeeks == [channel : ChannelNumbers, position : Positions]

ChannelAllocations == [channel : ChannelNumbers, video_frame : VideoFrames]

ChannelRealignments == [channel : ChannelNumbers, direction : Directions]

(***************************************************************************)
(* The effects of a step: sends to the notifier, driver calls, store       *)
(* commands, replies, the settle delay.                                     *)
(***************************************************************************)
Fx(op, name, num, arg, ok, msg) ==
    [op |-> op, name |-> name, num |-> num, arg |-> arg, ok |-> ok, msg |-> msg]

\* web_receive.recv(): the request taken, with the window or channel it names
Received(name, num, msg) == Fx("recv", name, num, 0, TRUE, msg)

\* InterfaceSend::send of an InterfaceUpdate
Sent(name, num) == Fx("send", name, num, 0, TRUE, "")

\* a call of a MediaPlayback method and its result
Called(name, num, arg, res) == Fx("driver", name, num, arg, res.ok, res.msg)

\* a Redis command on one of the three keys, whether it succeeded, and the
\* number of keys it found
StoreOp(name, key, ok, found) == Fx("store", name, 0, found, ok, key)

\* self.last_media_update.elapsed() as update_media reads it
Advanced(elapsed) == Fx("clock", "elapsed", 0, elapsed, TRUE, "")

\* a panic of the task
Panicked(msg) == Fx("panic", "panic", 0, 0, FALSE, msg)

\* request.reply_to.send(reply)
Replied(to, reply) == Fx("reply", "WebReply", to, 0, reply.is_valid, reply.message)

\* sleep(Duration::from_millis(500)) of restore_playlist
Slept(millis) == Fx("sleep", "sleep", 0, millis, TRUE, "")

\* the HTTP response of handle_request
Responded(to, status) == Fx("http", "response", to, status, status = 200, "")

FxOf(tr, op) == SelectSeq(tr, LAMBDA e : e.op = op)

(***************************************************************************)
(* WebReply                                                                *)
(***************************************************************************)
success == [is_valid |-> TRUE, message |-> "Request completed."]

failure(reason) == [is_valid |-> FALSE, message |-> reason]

is_success(reply) == reply.is_valid

(***************************************************************************)
(* serde_yaml: the text of a list is a document holding its items in       *)
(* order; the text of the playlist is a mapping (a set of key/value        *)
(* pairs); a Duration is written as seconds and nanoseconds.               *)
(***************************************************************************)
DurationToYaml(d) == [secs |-> d \div 1000, nanos |-> (d % 1000) * 1000000]

DurationFromYaml(y) == y.secs * 1000 + (y.nanos \div 1000000)

PlaybackToYaml(p) ==
    [media_cue |-> p.media_cue, seek_to |-> DurationToYaml(p.seek_to), state |-> p.state]

PlaybackFromYaml(y) ==
    [media_cue |-> y.media_cue, seek_to |-> DurationFromYaml(y.seek_to), state |-> y.state]

ListToString(list) == [doc |-> "sequence", items |-> list]

ListFromStr(text) == IF text.doc = "sequence" THEN Some(text.items) ELSE None

PlaylistToString(playlist) ==
    [doc |-> "mapping",
     items |-> {<<c, PlaybackToYaml(playlist[c])>> : c \in DOMAIN playlist}]

PlaylistFromStr(text) ==
    IF text.doc = "mapping"
    THEN LET keys == {kv[1] : kv \in text.items}
         IN  Some([c \in keys |->
                     PlaybackFromYaml((CHOOSE kv \in text.items : kv[1] = c)[2])])
    ELSE None

(***************************************************************************)
(* The Redis store: get, set and del on the three keys of this node.       *)
(***************************************************************************)
StoreKeys == {"windows", "channels", "media"}

EmptyStore == [k \in StoreKeys |-> None]

\* connection.set(key, text)
RedisSet(st, key, text, ok) == IF ok THEN [st EXCEPT ![key] = Some(text)] ELSE st

\* connection.get(key) as RedisResult<String>: an absent key is an error
RedisGet(st, key, ok) == IF ok THEN st[key] ELSE None

\* connection.del(key)
RedisDel(st, key, ok) == IF ok THEN [st EXCEPT ![key] = None] ELSE st

\* the number of keys a successful command on key finds
Found(st, key, ok) == IF ok /\ IsSome(st[key]) THEN 1 ELSE 0

\* the outcomes a store command can have
Outcomes == IF "store" \in faults THEN BOOLEAN ELSE {TRUE}

\* the outcomes a GStreamer call of the driver can have
DriverOutcomes == IF "driver" \in faults THEN BOOLEAN ELSE {TRUE}

(***************************************************************************)
(* MediaPlayback (the driver): the map of defined channels.  For each      *)
(* channel the model keeps the uri set on its playbin (None when stopped). *)
(***************************************************************************)
Extend(f, k, v) == [x \in DOMAIN f \cup {k} |-> IF x = k THEN v ELSE f[x]]

EmptyMap == [x \in {} |-> None]

\* a text under a key that serde_yaml::from_str does not take for a list or
\* a playlist
Unreadable == [doc |-> "scalar", items |-> <<>>]

\* what the store can hold under the keys of this node when a process starts:
\* for each key nothing, an unreadable text or the text of an earlier backup
LingeringStores ==
    {[windows |-> w, channels |-> c, media |-> m] :
        w \in {None, Some(Unreadable)}
               \cup {Some(ListToString(<<d>>)) : d \in WindowDefinitions},
        c \in {None, Some(Unreadable)}
               \cup {Some(ListToString(<<d>>)) : d \in MediaChannels},
        m \in {None, Some(Unreadable)}
               \cup {Some(PlaylistToString(
                            Extend(EmptyMap, cue.channel,
                                   [media_cue |-> cue, seek_to |-> 0, state |-> state]))) :
                        cue \in MediaCues, state \in PlaybackStates}}

\* what a process leaves in the store when it has defined every channel in
\* the order of the numbers, cued media on each, paused some, and stopped
\* without a Close
RecordedStores ==
    {[windows |-> None,
      channels |-> Some(ListToString(
                      [c \in ChannelNumbers |->
                          [channel |-> c, video_frame |-> None,
                           audio_device |-> None, loop_media |-> None]])),
      media |-> Some(PlaylistToString(
                      [c \in ChannelNumbers |->
                          [media_cue |-> [channel |-> c, uri |-> "video.mp4",
                                          loop_media |-> None],
                           seek_to |-> 0, state |-> states[c]]]))] :
        states \in [ChannelNumbers -> PlaybackStates]}

NewMediaPlayback == [channels |-> EmptyMap]

Ok == [ok |-> TRUE, msg |-> ""]

Err(msg) == [ok |-> FALSE, msg |-> msg]

define_channel(mp, media_channel, ok) ==
    IF media_channel.channel \in DOMAIN mp.channels
    THEN [mp |-> mp, res |-> Err("Channel is already defined."), stream |-> None]
    ELSE IF ~ok
    THEN [mp |-> mp, res |-> Err("Unable to create playbin."), stream |-> None]
    ELSE [mp |-> [mp EXCEPT !.channels =
                     Extend(@, media_channel.channel,
                            [uri |-> media_channel.loop_media,
                             channel_loop |-> media_channel.loop_media])],
          res |-> Ok,
          stream |-> IF IsSome(media_channel.video_frame)
                     THEN Some([window_number |->
                                    Unwrap(media_channel.video_frame).window_number,
                                channel |-> media_channel.channel])
                     ELSE None]

\* cue_media stops the old media and starts the new one; either can fail
CueOutcomes ==
    IF "driver" \in faults THEN {"ok", "stop_failed", "start_failed"} ELSE {"ok"}

cue_media(mp, media_cue, outcome) ==
    IF media_cue.channel \notin DOMAIN mp.channels
    THEN [mp |-> mp, res |-> Err("Unable to cue media: Channel not defined.")]
    ELSE IF outcome = "stop_failed"
    THEN [mp |-> mp, res |-> Err("Unable to stop media.")]
    ELSE IF outcome = "start_failed"
    THEN [mp |-> [mp EXCEPT !.channels[media_cue.channel].uri = None],
          res |-> Err("Unable to start playing media.")]
    ELSE [mp |-> [mp EXCEPT !.channels[media_cue.channel].uri = Some(media_cue.uri)],
          res |-> Ok]

\* a change_state that does not look the channel up
change_state_unchecked(mp, channel_state, ok) ==
    IF ~ok
    THEN Err(IF channel_state.state = "Playing"
             THEN "Unable to play media." ELSE "Unable to pause media.")
    ELSE Ok

change_state(mp, channel_state, ok) ==
    IF channel_state.channel \notin DOMAIN mp.channels
    THEN Err("Unable to change state: Channel not defined.")
    ELSE IF ~ok
    THEN Err(IF channel_state.state = "Playing"
             THEN "Unable to play media." ELSE "Unable to pause media.")
    ELSE Ok

\* u64 arithmetic without overflow checks
WrapU64(x) == (x + U64_MAX + 1) % (U64_MAX + 1)

\* the position the playbin is asked to seek to
SeekTarget(duration, position) ==
    IF duration > position THEN position ELSE WrapU64(duration - END_MARGIN)

\* the answers query_duration can give for a channel, in milliseconds; in the
\* "seek" scope also a clip shorter than the end margin
MediaDurations == IF scope = "seek" THEN {100, 1000} ELSE {1000}

\* query_duration has no answer when nothing is cued or the media is not
\* loaded yet
DurationQueries(mp, channel) ==
    IF channel \in DOMAIN mp.channels /\ IsSome(mp.channels[channel].uri)
    THEN {Some(d) : d \in MediaDurations}
         \cup (IF "driver" \in faults THEN {None} ELSE {})
    ELSE {None}

seek(mp, channel_seek, duration, ok) ==
    IF channel_seek.channel \notin DOMAIN mp.channels
    THEN Err("Unable to seek media: Channel not defined.")
    ELSE IF duration = None
    THEN Err("Unable to seek media: No media playing.")
    ELSE IF ~ok
    THEN Err("Unable to seek media.")
    ELSE Ok

\* what a call of seek does: the call with its result and, when the channel
\* is there, the query_duration on its playbin and, when that has an answer,
\* the seek_simple
SeekFx(mp, channel_seek, duration, ok) ==
    <<Called("seek", channel_seek.channel, channel_seek.position,
             seek(mp, channel_seek, duration, ok))>>
    \o (IF channel_seek.channel \notin DOMAIN mp.channels
        THEN <<>>
        ELSE IF IsSome(duration)
        THEN <<Fx("driver", "query_duration", channel_seek.channel,
                  Unwrap(duration), TRUE, ""),
               Fx("driver", "seek_simple", channel_seek.channel,
                  SeekTarget(Unwrap(duration), channel_seek.position), ok, "")>>
        ELSE <<Fx("driver", "query_duration", channel_seek.channel, 0, FALSE, "")>>)

\* all_stop stops the channels one by one and gives up at the first failure:
\* stopped is the set of channels it got to stop
all_stop(mp, stopped) ==
    [mp |-> [mp EXCEPT !.channels =
                [c \in DOMAIN mp.channels |->
                    IF c \in stopped THEN [mp.channels[c] EXCEPT !.uri = None]
                    ELSE mp.channels[c]]],
     res |-> IF stopped = DOMAIN mp.channels THEN Ok ELSE Err("Unable to stop media.")]


(***************************************************************************)
(* MediaPlayback of definitions/backup.rs: one playlist entry.             *)
(***************************************************************************)
\* Duration::checked_add: None when the sum is not representable
checked_add(a, b) == IF a + b > DURATION_MAX THEN None ELSE Some(a + b)

\* an update whose sum wraps around
update_wrapping(playback, additional_time) ==
    [playback EXCEPT !.seek_to = (@ + additional_time) % (DURATION_MAX + 1)]

\* MediaPlayback::update
\* an update that stops at the largest Duration
update_saturating(playback, additional_time) ==
    [playback EXCEPT !.seek_to = IF @ + additional_time > DURATION_MAX
                                 THEN DURATION_MAX ELSE @ + additional_time]

update(playback, additional_time) ==
    LET sum == checked_add(playback.seek_to, additional_time)
    IN  [playback EXCEPT !.seek_to = IF IsSome(sum) THEN Unwrap(sum) ELSE @]

(***************************************************************************)
(* i32 arithmetic of the frame coordinates, scaled to a small width.       *)
(***************************************************************************)
WrapI32(x) == ((x + I32_MAX + 1) % (2 * (I32_MAX + 1))) - (I32_MAX + 1)

(***************************************************************************)
(* BackupHandler.  Every operation takes the handler and the store and     *)
(* gives the handler and the store after it, and its effects.  ok is the   *)
(* outcome of the store command the operation issues.                      *)
(***************************************************************************)
NewBackupHandler(connected) ==
    [connection |-> connected,
     window_list |-> <<>>,
     channel_list |-> <<>>,
     media_playlist |-> EmptyMap]

\* BackupHandler::new: with a server location, and if the connection can be
\* made, the handler holds a connection
new(location, connect_ok) == NewBackupHandler(location /\ connect_ok)

\* self.connection.take() with a connection in the handler
Taken(bh) == [bh EXCEPT !.connection = FALSE]

\* self.connection = Some(connection)
PutBack(bh) == [bh EXCEPT !.connection = TRUE]

\* an operation of a handler without a connection
Untouched(bh, st) == [bh |-> bh, store |-> st, fx |-> <<>>]

\* a window backup that does not look for the connection
backup_window_unconnected(bh, st, window_definition, ok) ==
    LET list == Append(bh.window_list, window_definition)
    IN  [bh |-> [bh EXCEPT !.window_list = list],
         store |-> RedisSet(st, "windows", ListToString(list), ok),
         fx |-> <<StoreOp("set", "windows", ok, 0)>>]

\* a backup that keeps the new window only when the store has taken it
backup_window_when_stored(bh, st, window_definition, ok) ==
    IF bh.connection
    THEN LET list == Append(bh.window_list, window_definition)
         IN  [bh |-> PutBack([Taken(bh) EXCEPT !.window_list =
                                 IF ok THEN list ELSE bh.window_list]),
              store |-> RedisSet(st, "windows", ListToString(list), ok),
              fx |-> <<StoreOp("set", "windows", ok, 0)>>]
    ELSE Untouched(bh, st)

backup_window(bh, st, window_definition, ok) ==
    IF bh.connection
    THEN LET list == Append(bh.window_list, window_definition)
         IN  [bh |-> PutBack([Taken(bh) EXCEPT !.window_list = list]),
              store |-> RedisSet(st, "windows", ListToString(list), ok),
              fx |-> <<StoreOp("set", "windows", ok, 0)>>]
    ELSE Untouched(bh, st)

\* a backup that puts the new channel in front of the list
backup_channel_in_front(bh, st, media_channel, ok) ==
    IF bh.connection
    THEN LET list == <<media_channel>> \o bh.channel_list
         IN  [bh |-> PutBack([Taken(bh) EXCEPT !.channel_list = list]),
              store |-> RedisSet(st, "channels", ListToString(list), ok),
              fx |-> <<StoreOp("set", "channels", ok, 0)>>]
    ELSE Untouched(bh, st)

backup_channel(bh, st, media_channel, ok) ==
    IF bh.connection
    THEN LET list == Append(bh.channel_list, media_channel)
         IN  [bh |-> PutBack([Taken(bh) EXCEPT !.channel_list = list]),
              store |-> RedisSet(st, "channels", ListToString(list), ok),
              fx |-> <<StoreOp("set", "channels", ok, 0)>>]
    ELSE Untouched(bh, st)

\* frame.top -= 1 and the like: the sum does not fit an i32
Overflows(frame, direction) ==
    (CASE direction = "Up" -> frame.top - 1
       [] direction = "Down" -> frame.top + 1
       [] direction = "Left" -> frame.left - 1
       [] direction = "Right" -> frame.left + 1) \notin (-(I32_MAX + 1))..I32_MAX

\* the loop of backup_channel_align gets to a frame whose move overflows, in
\* a build that checks the arithmetic
AlignPanics(bh, new_alignment) ==
    /\ "overflow" \in faults
    /\ bh.connection
    /\ \E i \in DOMAIN bh.channel_list :
          /\ bh.channel_list[i].channel = new_alignment.channel
          /\ IsSome(bh.channel_list[i].video_frame)
          /\ Overflows(Unwrap(bh.channel_list[i].video_frame), new_alignment.direction)
          /\ \A j \in 1..(i - 1) :
                bh.channel_list[j].channel = new_alignment.channel
                    => IsSome(bh.channel_list[j].video_frame)

\* the frame moved by one pixel
Realign(frame, direction) ==
    CASE direction = "Up" -> [frame EXCEPT !.top = WrapI32(@ - 1)]
      [] direction = "Down" -> [frame EXCEPT !.top = WrapI32(@ + 1)]
      [] direction = "Left" -> [frame EXCEPT !.left = WrapI32(@ - 1)]
      [] direction = "Right" -> [frame EXCEPT !.left = WrapI32(@ + 1)]

\* a frame that takes the new size and stays where it was
RecomposeInPlace(old_frame, new_frame) ==
    [window_number |-> old_frame.window_number,
     top |-> old_frame.top,
     left |-> old_frame.left,
     height |-> new_frame.height,
     width |-> new_frame.width]

\* the frame with the new allocation, in the window it had
Recompose(old_frame, new_frame) ==
    [window_number |-> old_frame.window_number,
     top |-> new_frame.top,
     left |-> new_frame.left,
     height |-> new_frame.height,
     width |-> new_frame.width]

\* the new frame of a matching channel: change is the ChannelRealignment or the
\* ChannelAllocation
NewFrame(frame, change) ==
    IF "direction" \in DOMAIN change
    THEN Realign(frame, change.direction)
    ELSE Recompose(frame, change.video_frame)

\* the loop over channel_list of backup_channel_align and backup_channel_resize,
\* from index i on: it returns early at a matching channel without a frame
RECURSIVE UpdateFrames(_, _, _)
UpdateFrames(list, i, change) ==
    IF i > Len(list)
    THEN [list |-> list, returned |-> FALSE]
    ELSE IF list[i].channel = change.channel
    THEN IF list[i].video_frame = None
         THEN [list |-> list, returned |-> TRUE]
         ELSE UpdateFrames(
                  [list EXCEPT ![i].video_frame = Some(NewFrame(Unwrap(@), change))],
                  i + 1, change)
    ELSE UpdateFrames(list, i + 1, change)

backup_channel_align(bh, st, new_alignment, ok) ==
    IF bh.connection
    THEN LET loop == UpdateFrames(bh.channel_list, 1, new_alignment)
         IN  IF loop.returned
             THEN [bh |-> PutBack([Taken(bh) EXCEPT !.channel_list = loop.list]), store |-> st, fx |-> <<>>]
             ELSE [bh |-> PutBack([Taken(bh) EXCEPT !.channel_list = loop.list]),
                   store |-> RedisSet(st, "channels", ListToString(loop.list), ok),
                   fx |-> <<StoreOp("set", "channels", ok, 0)>>]
    ELSE Untouched(bh, st)

backup_channel_resize(bh, st, new_size, ok) ==
    IF bh.connection
    THEN LET loop == UpdateFrames(bh.channel_list, 1, new_size)
         IN  IF loop.returned
             THEN [bh |-> PutBack([Taken(bh) EXCEPT !.channel_list = loop.list]), store |-> st, fx |-> <<>>]
             ELSE [bh |-> PutBack([Taken(bh) EXCEPT !.channel_list = loop.list]),
                   store |-> RedisSet(st, "channels", ListToString(loop.list), ok),
                   fx |-> <<StoreOp("set", "channels", ok, 0)>>]
    ELSE Untouched(bh, st)

\* BackupHandler::update_media: elapsed is the time since last_media_update
update_media(bh, elapsed) ==
    [bh EXCEPT !.media_playlist =
        [c \in DOMAIN bh.media_playlist |-> update(bh.media_playlist[c], elapsed)]]

\* a backup_media that keeps the cue a channel already has
backup_media_first_cue(bh, st, media_cue, elapsed, ok) ==
    IF bh.connection
    THEN LET updated == update_media(bh, elapsed).media_playlist
             playlist == IF media_cue.channel \in DOMAIN updated THEN updated
                         ELSE Extend(updated, media_cue.channel,
                                     [media_cue |-> media_cue, seek_to |-> 0,
                                      state |-> "Playing"])
         IN  [bh |-> [bh EXCEPT !.media_playlist = playlist],
              store |-> RedisSet(st, "media", PlaylistToString(playlist), ok),
              fx |-> <<Advanced(elapsed), StoreOp("set", "media", ok, 0)>>]
    ELSE Untouched(bh, st)

\* a media backup that keeps the position and the state of an entry that is
\* already there
backup_media_merged(bh, st, media_cue, elapsed, ok) ==
    IF bh.connection
    THEN LET updated == update_media(bh, elapsed).media_playlist
             playlist == IF media_cue.channel \in DOMAIN updated
                         THEN [updated EXCEPT ![media_cue.channel].media_cue = media_cue]
                         ELSE Extend(updated, media_cue.channel,
                                     [media_cue |-> media_cue, seek_to |-> 0,
                                      state |-> "Playing"])
         IN  [bh |-> [bh EXCEPT !.media_playlist = playlist],
              store |-> RedisSet(st, "media", PlaylistToString(playlist), ok),
              fx |-> <<Advanced(elapsed), StoreOp("set", "media", ok, 0)>>]
    ELSE Untouched(bh, st)

backup_media(bh, st, media_cue, elapsed, ok) ==
    IF bh.connection
    THEN LET playlist == Extend(update_media(Taken(bh), elapsed).media_playlist,
                                media_cue.channel,
                                [media_cue |-> media_cue, seek_to |-> 0,
                                 state |-> "Playing"])
         IN  [bh |-> PutBack([Taken(bh) EXCEPT !.media_playlist = playlist]),
              store |-> RedisSet(st, "media", PlaylistToString(playlist), ok),
              fx |-> <<Advanced(elapsed), StoreOp("set", "media", ok, 0)>>]
    ELSE Untouched(bh, st)

\* a state backup that does not advance the positions
backup_media_state_still(bh, st, new_state, elapsed, ok) ==
    IF bh.connection
    THEN IF new_state.channel \in DOMAIN bh.media_playlist
         THEN LET playlist == [bh.media_playlist EXCEPT
                                  ![new_state.channel].state = new_state.state]
              IN  [bh |-> [bh EXCEPT !.media_playlist = playlist],
                   store |-> RedisSet(st, "media", PlaylistToString(playlist), ok),
                   fx |-> <<Advanced(elapsed), StoreOp("set", "media", ok, 0)>>]
         ELSE [bh |-> bh, store |-> st, fx |-> <<Advanced(elapsed)>>]
    ELSE Untouched(bh, st)

\* a state backup that returns without the connection when the channel has
\* no entry
backup_media_state_leaky(bh, st, new_state, elapsed, ok) ==
    IF bh.connection
    THEN LET updated == update_media(Taken(bh), elapsed)
         IN  IF new_state.channel \in DOMAIN updated.media_playlist
             THEN LET playlist == [updated.media_playlist EXCEPT
                                      ![new_state.channel].state = new_state.state]
                  IN  [bh |-> PutBack([updated EXCEPT !.media_playlist = playlist]),
                       store |-> RedisSet(st, "media", PlaylistToString(playlist), ok),
                       fx |-> <<Advanced(elapsed), StoreOp("set", "media", ok, 0)>>]
             ELSE [bh |-> updated, store |-> st, fx |-> <<Advanced(elapsed)>>]
    ELSE Untouched(bh, st)

backup_media_state(bh, st, new_state, elapsed, ok) ==
    IF bh.connection
    THEN LET updated == update_media(Taken(bh), elapsed)
         IN  IF new_state.channel \in DOMAIN updated.media_playlist
             THEN LET playlist == [updated.media_playlist EXCEPT
                                      ![new_state.channel].state = new_state.state]
                  IN  [bh |-> PutBack([updated EXCEPT !.media_playlist = playlist]),
                       store |-> RedisSet(st, "media", PlaylistToString(playlist), ok),
                       fx |-> <<Advanced(elapsed), StoreOp("set", "media", ok, 0)>>]
             ELSE [bh |-> PutBack(updated), store |-> st, fx |-> <<Advanced(elapsed)>>]
    ELSE Untouched(bh, st)

\* a seek backup that takes the media for playing again
backup_media_seek_resumed(bh, st, new_seek, elapsed, ok) ==
    IF bh.connection
    THEN LET updated == update_media(bh, elapsed)
         IN  IF new_seek.channel \in DOMAIN updated.media_playlist
             THEN LET playlist == [updated.media_playlist EXCEPT
                                      ![new_seek.channel].seek_to = new_seek.position,
                                      ![new_seek.channel].state = "Playing"]
                  IN  [bh |-> [bh EXCEPT !.media_playlist = playlist],
                       store |-> RedisSet(st, "media", PlaylistToString(playlist), ok),
                       fx |-> <<Advanced(elapsed), StoreOp("set", "media", ok, 0)>>]
             ELSE [bh |-> updated, store |-> st, fx |-> <<Advanced(elapsed)>>]
    ELSE Untouched(bh, st)

backup_media_seek(bh, st, new_seek, elapsed, ok) ==
    IF bh.connection
    THEN LET updated == update_media(Taken(bh), elapsed)
         IN  IF new_seek.channel \in DOMAIN updated.media_playlist
             THEN LET playlist == [updated.media_playlist EXCEPT
                                      ![new_seek.channel].seek_to = new_seek.position]
                  IN  [bh |-> PutBack([updated EXCEPT !.media_playlist = playlist]),
                       store |-> RedisSet(st, "media", PlaylistToString(playlist), ok),
                       fx |-> <<Advanced(elapsed), StoreOp("set", "media", ok, 0)>>]
             ELSE [bh |-> PutBack(updated), store |-> st, fx |-> <<Advanced(elapsed)>>]
    ELSE Untouched(bh, st)

\* the value of a key as reload_backup takes it: the parsed text, or the
\* empty value when the key is absent, unreadable or does not parse
ParsedList(got) ==
    IF IsSome(got) /\ IsSome(ListFromStr(Unwrap(got)))
    THEN Unwrap(ListFromStr(Unwrap(got)))
    ELSE <<>>

ParsedPlaylist(got) ==
    IF IsSome(got) /\ IsSome(PlaylistFromStr(Unwrap(got)))
    THEN Unwrap(PlaylistFromStr(Unwrap(got)))
    ELSE EmptyMap

\* a reload that wants all three keys
reload_backup_strict(bh, st, oks) ==
    IF bh.connection /\ IsSome(RedisGet(st, "media", oks[1]))
       /\ IsSome(RedisGet(st, "windows", oks[2]))
       /\ IsSome(RedisGet(st, "channels", oks[3]))
    THEN LET media_playlist == ParsedPlaylist(RedisGet(st, "media", oks[1]))
             window_list == ParsedList(RedisGet(st, "windows", oks[2]))
             channel_list == ParsedList(RedisGet(st, "channels", oks[3]))
         IN  [bh |-> [bh EXCEPT !.media_playlist = media_playlist,
                                 !.window_list = window_list,
                                 !.channel_list = channel_list],
              result |-> Some([window_list |-> window_list,
                               channel_list |-> channel_list,
                               media_playlist |-> media_playlist]),
              fx |-> <<StoreOp("get", "media", TRUE, 1),
                       StoreOp("get", "windows", TRUE, 1),
                       StoreOp("get", "channels", TRUE, 1)>>]
    ELSE [bh |-> bh, result |-> None,
          fx |-> IF bh.connection THEN <<StoreOp("get", "media", FALSE, 0)>> ELSE <<>>]

\* a reload that gives up the lists when the playlist cannot be read
reload_backup_all_or_nothing(bh, st, oks) ==
    IF bh.connection /\ IsSome(RedisGet(st, "media", oks[1]))
    THEN LET readable == IsSome(PlaylistFromStr(Unwrap(RedisGet(st, "media", oks[1]))))
             media_playlist == ParsedPlaylist(RedisGet(st, "media", oks[1]))
             window_list == IF readable
                            THEN ParsedList(RedisGet(st, "windows", oks[2])) ELSE <<>>
             channel_list == IF readable
                             THEN ParsedList(RedisGet(st, "channels", oks[3])) ELSE <<>>
         IN  [bh |-> [bh EXCEPT !.media_playlist = media_playlist,
                                 !.window_list = window_list,
                                 !.channel_list = channel_list],
              result |-> Some([window_list |-> window_list,
                               channel_list |-> channel_list,
                               media_playlist |-> media_playlist]),
              fx |-> <<StoreOp("get", "media", TRUE, 1),
                       StoreOp("get", "windows",
                               Found(st, "windows", oks[2]) = 1,
                               Found(st, "windows", oks[2])),
                       StoreOp("get", "channels",
                               Found(st, "channels", oks[3]) = 1,
                               Found(st, "channels", oks[3]))>>]
    ELSE [bh |-> bh, result |-> None,
          fx |-> IF bh.connection THEN <<StoreOp("get", "media", FALSE, 0)>> ELSE <<>>]

\* oks: the outcomes of the three get commands (media, windows, channels)
\* a reload that hands the snapshot over without keeping it
reload_backup_handing_over(bh, st, oks) ==
    IF bh.connection
    THEN LET media_string == RedisGet(st, "media", oks[1])
         IN  IF IsSome(media_string)
             THEN [bh |-> bh,
                   result |-> Some([window_list |->
                                        ParsedList(RedisGet(st, "windows", oks[2])),
                                    channel_list |->
                                        ParsedList(RedisGet(st, "channels", oks[3])),
                                    media_playlist |-> ParsedPlaylist(media_string)]),
                   fx |-> <<StoreOp("get", "media", TRUE, 1),
                            StoreOp("get", "windows",
                                    Found(st, "windows", oks[2]) = 1,
                                    Found(st, "windows", oks[2])),
                            StoreOp("get", "channels",
                                    Found(st, "channels", oks[3]) = 1,
                                    Found(st, "channels", oks[3]))>>]
             ELSE [bh |-> bh, result |-> None,
                   fx |-> <<StoreOp("get", "media", FALSE, 0)>>]
    ELSE [bh |-> bh, result |-> None, fx |-> <<>>]

reload_backup(bh, st, oks) ==
    IF bh.connection
    THEN LET media_string == RedisGet(st, "media", oks[1])
         IN  IF IsSome(media_string)
             THEN LET media_playlist == ParsedPlaylist(media_string)
                      window_list ==
                          ParsedList(RedisGet(st, "windows", oks[2]))
                      channel_list ==
                          ParsedList(RedisGet(st, "channels", oks[3]))
                  IN  [bh |-> PutBack([Taken(bh) EXCEPT
                                          !.media_playlist = media_playlist,
                                          !.window_list = window_list,
                                          !.channel_list = channel_list]),
                       result |-> Some([window_list |-> window_list,
                                        channel_list |-> channel_list,
                                        media_playlist |-> media_playlist]),
                       fx |-> <<StoreOp("get", "media", TRUE, 1),
                                StoreOp("get", "windows",
                                        Found(st, "windows", oks[2]) = 1,
                                        Found(st, "windows", oks[2])),
                                StoreOp("get", "channels",
                                        Found(st, "channels", oks[3]) = 1,
                                        Found(st, "channels", oks[3]))>>]
             ELSE [bh |-> PutBack(Taken(bh)), result |-> None,
                   fx |-> <<StoreOp("get", "media", FALSE, 0)>>]
    ELSE [bh |-> bh, result |-> None, fx |-> <<>>]

\* a drop that leaves the windows key
drop_without_windows(bh, st, oks) ==
    IF bh.connection
    THEN [bh |-> [bh EXCEPT !.connection = FALSE],
          store |-> RedisDel(RedisDel(st, "media", oks[1]), "channels", oks[2]),
          fx |-> <<StoreOp("del", "media", oks[1], Found(st, "media", oks[1])),
                   StoreOp("del", "channels", oks[2], Found(st, "channels", oks[2])),
                   StoreOp("del", "windows", oks[3], Found(st, "windows", oks[3]))>>]
    ELSE Untouched(bh, st)

\* impl Drop for BackupHandler; oks: the outcomes of the three del commands
\* (media, channels, windows)
drop(bh, st, oks) ==
    IF bh.connection
    THEN [bh |-> [bh EXCEPT !.connection = FALSE],
          store |-> RedisDel(RedisDel(RedisDel(st, "media", oks[1]),
                                      "channels", oks[2]),
                             "windows", oks[3]),
          fx |-> <<StoreOp("del", "media", oks[1], Found(st, "media", oks[1])),
                   StoreOp("del", "channels", oks[2], Found(st, "channels", oks[2])),
                   StoreOp("del", "windows", oks[3], Found(st, "windows", oks[3]))>>]
    ELSE Untouched(bh, st)


(***************************************************************************)
(* SystemInterface::run before the loop: the recovery.                     *)
(***************************************************************************)
\* an insert that takes every number for new
insert_always(set, value) == [set |-> set \cup {value}, inserted |-> TRUE]

\* self.windows.insert(window_number): the set after it, and whether the
\* number was new
insert(set, value) == [set |-> set \cup {value}, inserted |-> value \notin set]

\* a window loop that takes the windows from the end of the list
RECURSIVE ReloadWindowsBackwards(_, _, _)
ReloadWindowsBackwards(list, i, wins) ==
    IF i > Len(list)
    THEN [windows |-> wins, fx |-> <<>>]
    ELSE LET window == list[Len(list) + 1 - i]
         IN  IF insert(wins, window.window_number).inserted
             THEN LET rest == ReloadWindowsBackwards(list, i + 1,
                                  insert(wins, window.window_number).set)
                  IN  [windows |-> rest.windows,
                       fx |-> <<Sent("Window", window.window_number)>> \o rest.fx]
             ELSE ReloadWindowsBackwards(list, i + 1, wins)

\* the window loop of run, from index i on
RECURSIVE ReloadWindows(_, _, _)
ReloadWindows(list, i, wins) ==
    IF i > Len(list)
    THEN [windows |-> wins, fx |-> <<>>]
    ELSE IF insert(wins, list[i].window_number).inserted
    THEN LET rest == ReloadWindows(list, i + 1,
                                   insert(wins, list[i].window_number).set)
         IN  [windows |-> rest.windows,
              fx |-> <<Sent("Window", list[i].window_number)>> \o rest.fx]
    ELSE ReloadWindows(list, i + 1, wins)

\* a channel loop that stops at the first channel the driver refuses
RECURSIVE ReloadChannelsAborting(_, _, _, _)
ReloadChannelsAborting(list, i, mp, oks) ==
    IF i > Len(list)
    THEN [mp |-> mp, fx |-> <<>>]
    ELSE LET defined == define_channel(mp, list[i], oks[i])
             rest == IF defined.res.ok
                     THEN ReloadChannelsAborting(list, i + 1, defined.mp, oks)
                     ELSE [mp |-> defined.mp, fx |-> <<>>]
         IN  [mp |-> rest.mp,
              fx |-> <<Called("define_channel", list[i].channel, 0, defined.res)>>
                     \o (IF defined.res.ok /\ IsSome(defined.stream)
                         THEN <<Sent("Video", list[i].channel)>> ELSE <<>>)
                     \o rest.fx]

\* the channel loop of run, from index i on; oks[i] tells whether the driver
\* manages to create the i-th channel
RECURSIVE ReloadChannels(_, _, _, _)
ReloadChannels(list, i, mp, oks) ==
    IF i > Len(list)
    THEN [mp |-> mp, fx |-> <<>>]
    ELSE LET defined == define_channel(mp, list[i], oks[i])
             rest == ReloadChannels(list, i + 1, defined.mp, oks)
         IN  [mp |-> rest.mp,
              fx |-> <<Called("define_channel", list[i].channel, 0, defined.res)>>
                     \o (IF defined.res.ok /\ IsSome(defined.stream)
                         THEN <<Sent("Video", list[i].channel)>> ELSE <<>>)
                     \o rest.fx]

\* first loop of restore_playlist over the channels in iteration order
RECURSIVE RestoreCues(_, _, _, _, _)
RestoreCues(playlist, order, i, mp, outcomes) ==
    IF i > Len(order)
    THEN [mp |-> mp, fx |-> <<>>]
    ELSE LET cue == playlist[order[i]].media_cue
             cued == cue_media(mp, cue, outcomes[order[i]])
             rest == RestoreCues(playlist, order, i + 1, cued.mp, outcomes)
         IN  [mp |-> rest.mp,
              fx |-> <<Called("cue_media", cue.channel, 0, cued.res)>> \o rest.fx]

\* the position restore_playlist seeks to:
\* playback.seek_to.as_millis() as u64 + delay_millis
RestorePosition(playback) == WrapU64(WrapU64(playback.seek_to) + DELAY_MILLIS)

\* second loop of restore_playlist, from index i on
RECURSIVE RestoreSeeksFrom(_, _, _, _, _, _)
RestoreSeeksFrom(playlist, order, i, mp, durations, oks) ==
    IF i > Len(order)
    THEN <<>>
    ELSE SeekFx(mp, [channel |-> order[i],
                     position |-> RestorePosition(playlist[order[i]])],
                durations[order[i]], oks[order[i]])
         \o RestoreSeeksFrom(playlist, order, i + 1, mp, durations, oks)

\* second loop of restore_playlist
RestoreSeeks(playlist, order, mp, durations, oks) ==
    RestoreSeeksFrom(playlist, order, 1, mp, durations, oks)

\* a third loop that sets the state of the playing entries too
RestoreStatesAll(playlist, order, mp, oks) ==
    [i \in 1..Len(order) |->
        Called("change_state", order[i], 0,
               change_state(mp, [channel |-> order[i],
                                 state |-> playlist[order[i]].state],
                            oks[order[i]]))]

\* third loop of restore_playlist: only the entries that are not playing
RestoreStates(playlist, order, mp, oks) ==
    LET paused == SelectSeq(order, LAMBDA c : playlist[c].state # "Playing")
    IN  [i \in 1..Len(paused) |->
            Called("change_state", paused[i], 0,
                   change_state(mp, [channel |-> paused[i],
                                     state |-> playlist[paused[i]].state],
                                oks[paused[i]]))]

restore_playlist(playlist, order, mp, outcomes, durations, seek_oks, state_oks) ==
    LET cues == RestoreCues(playlist, order, 1, mp, outcomes)
    IN  [mp |-> cues.mp,
         fx |-> cues.fx \o <<Slept(DELAY_MILLIS)>>
                \o RestoreSeeks(playlist, order, cues.mp, durations, seek_oks)
                \o RestoreStates(playlist, order, cues.mp, state_oks)]

\* the orders in which a map with these keys can be iterated
Orders(keys) ==
    {o \in [1..Cardinality(keys) -> keys] : \A i, j \in DOMAIN o : i # j => o[i] # o[j]}

\* nothing ran before
NoStop ==
    [connection |-> FALSE, windows |-> {}, channels |-> {},
     window_list |-> <<>>, channel_list |-> <<>>]

Recover ==
    /\ phase = "boot"
    /\ \E get_oks \in [1..3 -> Outcomes] :
          LET reload == reload_backup(backup_handler, store, get_oks)
          IN  /\ backup_handler' = reload.bh
              /\ IF IsSome(reload.result)
                 THEN LET backup == Unwrap(reload.result)
                          keys == DOMAIN backup.media_playlist
                      IN  \E define_oks \in [1..Len(backup.channel_list) -> DriverOutcomes],
                             order \in Orders(keys),
                             outcomes \in [keys -> CueOutcomes],
                             seek_oks \in [keys -> DriverOutcomes],
                             state_oks \in [keys -> DriverOutcomes] :
                            LET wins == ReloadWindows(backup.window_list, 1, windows)
                                chans == ReloadChannels(backup.channel_list, 1,
                                                        media_playback, define_oks)
                                cued == RestoreCues(backup.media_playlist, order, 1,
                                                    chans.mp, outcomes)
                            IN  \E durations \in [keys -> {None} \cup
                                        {Some(d) : d \in MediaDurations}] :
                                  /\ \A c \in keys :
                                        durations[c] \in DurationQueries(cued.mp, c)
                                  /\ LET restored ==
                                            restore_playlist(backup.media_playlist, order,
                                                chans.mp, outcomes, durations,
                                                seek_oks, state_oks)
                                     IN  /\ windows' = wins.windows
                                         /\ media_playback' = restored.mp
                                         /\ trace' = reload.fx \o wins.fx \o chans.fx
                                                     \o restored.fx
                 ELSE /\ trace' = reload.fx
                      /\ UNCHANGED <<windows, media_playback>>
    /\ phase' = "serving"
    /\ before_stop' = NoStop
    /\ UNCHANGED <<scope, store, web_receive, rx, faults, server_location, restarts>>


(***************************************************************************)
(* SystemInterface::run_once: one request is taken from the channel and    *)
(* handled to the end.  The channel holds the reply handles in order; what *)
(* a request asks for is read when it is taken.                            *)
(***************************************************************************)
\* a dispatcher that does not wait for the recovery
DequeuedAtOnce == phase # "closed" /\ web_receive # <<>>

Dequeued == phase = "serving" /\ web_receive # <<>>

\* a handler that serves the request received last
ServeLast(mp, bh, st, wins, reply, fx) ==
    /\ media_playback' = mp
    /\ backup_handler' = bh
    /\ store' = st
    /\ windows' = wins
    /\ web_receive' = SubSeq(web_receive, 1, Len(web_receive) - 1)
    /\ rx' = [rx EXCEPT ![web_receive[Len(web_receive)]] =
                            IF is_success(reply) THEN "ok" ELSE "fail"]
    /\ trace' = fx \o <<Replied(web_receive[Len(web_receive)], reply)>>
    /\ UNCHANGED <<scope, phase, faults, server_location, restarts, before_stop>>

\* a handler that replies as soon as it has the request and works afterwards
ServeReplyFirst(mp, bh, st, wins, reply, fx) ==
    /\ media_playback' = mp
    /\ backup_handler' = bh
    /\ store' = st
    /\ windows' = wins
    /\ web_receive' = Tail(web_receive)
    /\ rx' = [rx EXCEPT ![Head(web_receive)] = IF is_success(reply) THEN "ok" ELSE "fail"]
    /\ trace' = <<Head(fx), Replied(Head(web_receive), reply)>> \o Tail(fx)
    /\ UNCHANGED <<scope, phase, faults, server_location, restarts, before_stop>>

\* the end of a handler that replies: the state after it and the reply
Serve(mp, bh, st, wins, reply, fx) ==
    /\ media_playback' = mp
    /\ backup_handler' = bh
    /\ store' = st
    /\ windows' = wins
    /\ web_receive' = Tail(web_receive)
    /\ rx' = [rx EXCEPT ![Head(web_receive)] = IF is_success(reply) THEN "ok" ELSE "fail"]
    /\ trace' = fx \o <<Replied(Head(web_receive), reply)>>
    /\ UNCHANGED <<scope, phase, faults, server_location, restarts, before_stop>>

\* the end of a handler that panics inside a backup operation: the task
\* unwinds, the system interface is dropped with the receiver and the reply
\* handles, and the connection, checked out by the operation, is not there
\* for the drop of the handler
Panic(fx, msg) ==
    /\ phase' = "closed"
    /\ backup_handler' = NewBackupHandler(FALSE)
    /\ windows' = {}
    /\ media_playback' = NewMediaPlayback
    /\ web_receive' = <<>>
    /\ rx' = [p \in Requesters |->
                IF \E i \in DOMAIN web_receive : web_receive[i] = p
                THEN "dropped" ELSE rx[p]]
    /\ trace' = fx \o <<Panicked(msg)>>
    /\ UNCHANGED <<scope, store, faults, server_location, restarts, before_stop>>

AlignChannel ==
    /\ Dequeued
    /\ \E channel_realignment \in ChannelRealignments, ok \in Outcomes :
          LET backup == backup_channel_align(backup_handler, store,
                                             channel_realignment, ok)
              begun == <<Received("AlignChannel", channel_realignment.channel,
                                  channel_realignment.direction),
                         Sent("Align", channel_realignment.channel)>>
          IN  IF AlignPanics(backup_handler, channel_realignment)
              THEN Panic(begun, "attempt to add or subtract with overflow")
              ELSE Serve(media_playback, backup.bh, backup.store, windows, success,
                         begun \o backup.fx)

\* an AllStop that forgets the playlist of the stopped media
AllStopForgetting ==
    /\ Dequeued
    /\ \E stopped \in SUBSET DOMAIN media_playback.channels :
          LET stop == all_stop(media_playback, stopped)
          IN  /\ "driver" \in faults \/ stopped = DOMAIN media_playback.channels
              /\ Serve(stop.mp, [backup_handler EXCEPT !.media_playlist = EmptyMap],
                    store, windows,
                    IF stop.res.ok THEN success ELSE failure(stop.res.msg),
                    <<Received("AllStop", 0, ""), Called("all_stop", 0, 0, stop.res)>>)

AllStop ==
    /\ Dequeued
    /\ \E stopped \in SUBSET DOMAIN media_playback.channels :
          LET stop == all_stop(media_playback, stopped)
          IN  /\ "driver" \in faults \/ stopped = DOMAIN media_playback.channels
              /\ Serve(stop.mp, backup_handler, store, windows,
                    IF stop.res.ok THEN success ELSE failure(stop.res.msg),
                    <<Received("AllStop", 0, ""), Called("all_stop", 0, 0, stop.res)>>)

DefineWindow ==
    /\ Dequeued
    /\ \E window \in WindowDefinitions, ok \in Outcomes :
          IF insert(windows, window.window_number).inserted
          THEN LET backup == backup_window(backup_handler, store, window, ok)
               IN  Serve(media_playback, backup.bh, backup.store,
                         insert(windows, window.window_number).set, success,
                         <<Received("DefineWindow", window.window_number, ""),
                           Sent("Window", window.window_number)>> \o backup.fx)
          ELSE Serve(media_playback, backup_handler, store, windows,
                     failure("Window was already defined."),
                     <<Received("DefineWindow", window.window_number, "")>>)

DefineChannel ==
    /\ Dequeued
    /\ \E media_channel \in MediaChannels, driver_ok \in DriverOutcomes,
          ok \in Outcomes :
          LET defined == define_channel(media_playback, media_channel, driver_ok)
              call == <<Received("DefineChannel", media_channel.channel, ""),
                        Called("define_channel", media_channel.channel, 0, defined.res)>>
          IN  IF defined.res.ok
              THEN LET backup == backup_channel(backup_handler, store, media_channel, ok)
                   IN  Serve(defined.mp, backup.bh, backup.store, windows, success,
                             call
                             \o (IF IsSome(defined.stream)
                                 THEN <<Sent("Video", media_channel.channel)>> ELSE <<>>)
                             \o backup.fx)
              ELSE Serve(defined.mp, backup_handler, store, windows,
                         failure(defined.res.msg), call)

\* a CueMedia handler that reports a failed backup to the requester
CueMediaStrict ==
    /\ Dequeued
    /\ \E media_cue \in MediaCues, outcome \in CueOutcomes,
          elapsed \in Elapsed, ok \in Outcomes :
          LET cued == cue_media(media_playback, media_cue, outcome)
              call == <<Received("CueMedia", media_cue.channel, media_cue.uri),
                        Called("cue_media", media_cue.channel, 0, cued.res)>>
          IN  IF cued.res.ok
              THEN LET backup == backup_media(backup_handler, store, media_cue,
                                              elapsed, ok)
                   IN  Serve(cued.mp, backup.bh, backup.store, windows,
                             IF ok THEN success
                             ELSE failure("Unable to backup media."),
                             call \o backup.fx)
              ELSE Serve(cued.mp, backup_handler, store, windows,
                         failure(cued.res.msg), call)

CueMedia ==
    /\ Dequeued
    /\ \E media_cue \in MediaCues, outcome \in CueOutcomes,
          elapsed \in Elapsed, ok \in Outcomes :
          LET cued == cue_media(media_playback, media_cue, outcome)
              call == <<Received("CueMedia", media_cue.channel, media_cue.uri),
                        Called("cue_media", media_cue.channel, 0, cued.res)>>
          IN  IF cued.res.ok
              THEN LET backup == backup_media(backup_handler, store, media_cue,
                                              elapsed, ok)
                   IN  Serve(cued.mp, backup.bh, backup.store, windows, success,
                             call \o backup.fx)
              ELSE Serve(cued.mp, backup_handler, store, windows,
                         failure(cued.res.msg), call)

\* a ChangeState handler that backs the change up before it looks at the
\* result of the driver
ChangeStateBackupFirst ==
    /\ Dequeued
    /\ \E channel_state \in ChannelStates, driver_ok \in DriverOutcomes,
          elapsed \in Elapsed, ok \in Outcomes :
          LET res == change_state(media_playback, channel_state, driver_ok)
              call == <<Received("ChangeState", channel_state.channel,
                                 channel_state.state),
                        Called("change_state", channel_state.channel, 0, res)>>
              backup == backup_media_state(backup_handler, store,
                                           channel_state, elapsed, ok)
          IN  Serve(media_playback, backup.bh, backup.store, windows,
                    IF res.ok THEN success ELSE failure(res.msg),
                    call \o backup.fx)

ChangeState ==
    /\ Dequeued
    /\ \E channel_state \in ChannelStates, driver_ok \in DriverOutcomes,
          elapsed \in Elapsed, ok \in Outcomes :
          LET res == change_state(media_playback, channel_state, driver_ok)
              call == <<Received("ChangeState", channel_state.channel,
                                 channel_state.state),
                        Called("change_state", channel_state.channel, 0, res)>>
          IN  IF res.ok
              THEN LET backup == backup_media_state(backup_handler, store,
                                                    channel_state, elapsed, ok)
                   IN  Serve(media_playback, backup.bh, backup.store, windows, success,
                             call \o backup.fx)
              ELSE Serve(media_playback, backup_handler, store, windows,
                         failure(res.msg), call)

ResizeChannel ==
    /\ Dequeued
    /\ \E channel_allocation \in ChannelAllocations, ok \in Outcomes :
          LET backup == backup_channel_resize(backup_handler, store,
                                              channel_allocation, ok)
          IN  Serve(media_playback, backup.bh, backup.store, windows, success,
                    <<Received("ResizeChannel", channel_allocation.channel, ""),
                      Sent("Resize", channel_allocation.channel)>> \o backup.fx)

Seek ==
    /\ Dequeued
    /\ \E channel_seek \in ChannelSeeks, driver_ok \in DriverOutcomes,
          elapsed \in Elapsed, ok \in Outcomes :
          \E duration \in DurationQueries(media_playback, channel_seek.channel) :
          LET res == seek(media_playback, channel_seek, duration, driver_ok)
              call == <<Received("Seek", channel_seek.channel, "")>>
                      \o SeekFx(media_playback, channel_seek, duration, driver_ok)
          IN  IF res.ok
              THEN LET backup == backup_media_seek(backup_handler, store,
                                                   channel_seek, elapsed, ok)
                   IN  Serve(media_playback, backup.bh, backup.store, windows, success,
                             call \o backup.fx)
              ELSE Serve(media_playback, backup_handler, store, windows,
                         failure(res.msg), call)

\* Close ends the loop: run returns and the SystemInterface is dropped, with
\* the request, the requests still in the channel, the driver and the backup
\* handler
Close ==
    /\ Dequeued
    /\ \E del_oks \in [1..3 -> Outcomes] :
          LET dropped == drop(backup_handler, store, del_oks)
          IN  /\ backup_handler' = NewBackupHandler(FALSE)
              /\ store' = dropped.store
              /\ trace' = <<Received("Close", 0, "")>> \o dropped.fx
    /\ phase' = "closed"
    /\ windows' = {}
    /\ media_playback' = NewMediaPlayback
    /\ web_receive' = <<>>
    /\ rx' = [p \in Requesters |->
                IF \E i \in DOMAIN web_receive : web_receive[i] = p
                THEN "dropped" ELSE rx[p]]
    /\ UNCHANGED <<scope, faults, server_location, restarts, before_stop>>

(***************************************************************************)
(* WebInterface::handle_request, once per HTTP request of a requester.     *)
(***************************************************************************)
\* web_send.send(reply_to, request): the request is queued, or dropped with its
\* reply handle when the receiver is gone
Submit(p) ==
    /\ rx[p] = "idle"
    /\ IF phase = "closed"
       THEN /\ rx' = [rx EXCEPT ![p] = "dropped"]
            /\ UNCHANGED web_receive
       ELSE /\ Len(web_receive) < WEB_CHANNEL_CAPACITY
            /\ web_receive' = Append(web_receive, p)
            /\ rx' = [rx EXCEPT ![p] = "waiting"]
    /\ trace' = <<>>
    /\ UNCHANGED <<scope, phase, windows, media_playback, backup_handler, store,
                   faults, server_location, restarts, before_stop>>

\* a handle_request that answers only when a reply arrives
RespondToReply(p) ==
    /\ rx[p] \in {"ok", "fail"}
    /\ rx' = [rx EXCEPT ![p] = "idle"]
    /\ trace' = <<Responded(p, IF rx[p] = "ok" THEN 200 ELSE 400)>>
    /\ UNCHANGED <<scope, phase, windows, media_playback, backup_handler, store,
                   web_receive, faults, server_location, restarts, before_stop>>

\* rx.await has a result: the response goes out
Respond(p) ==
    /\ rx[p] \in {"ok", "fail", "dropped"}
    /\ rx' = [rx EXCEPT ![p] = "idle"]
    /\ trace' = <<Responded(p, CASE rx[p] = "ok" -> 200
                                 [] rx[p] = "fail" -> 400
                                 [] rx[p] = "dropped" -> 500)>>
    /\ UNCHANGED <<scope, phase, windows, media_playback, backup_handler, store,
                   web_receive, faults, server_location, restarts, before_stop>>

(***************************************************************************)
(* The process stops (a crash, a kill, or the end of the program after     *)
(* Close) and is started again against the same store.                     *)
(***************************************************************************)
Restart ==
    /\ restarts < MaxRestarts
    /\ restarts' = restarts + 1
    /\ before_stop' = [connection |-> backup_handler.connection,
                       windows |-> windows,
                       channels |-> DOMAIN media_playback.channels,
                       window_list |-> backup_handler.window_list,
                       channel_list |-> backup_handler.channel_list]
    /\ phase' = "boot"
    /\ windows' = {}
    /\ media_playback' = NewMediaPlayback
    /\ \E connect_ok \in Outcomes : backup_handler' = new(server_location, connect_ok)
    /\ web_receive' = <<>>
    /\ rx' = [p \in Requesters |-> "idle"]
    /\ trace' = <<>>
    /\ UNCHANGED <<scope, store, faults, server_location>>

\* the state after SystemInterface::new, against an empty store
InitIn(scopes, faulty) ==
    /\ scope \in scopes
    /\ faults \in faulty
    /\ server_location \in BOOLEAN
    /\ phase = "boot"
    /\ windows = {}
    /\ media_playback = NewMediaPlayback
    /\ \E connect_ok \in Outcomes : backup_handler = new(server_location, connect_ok)
    /\ store = EmptyStore
    /\ web_receive = <<>>
    /\ rx = [p \in Requesters |-> "idle"]
    /\ trace = <<>>
    /\ restarts = 0
    /\ before_stop = NoStop

Init ==
    \/ InitIn({"registry", "geometry", "web"}, {{}})
    \/ InitIn({"single"}, {{"store", "driver"}})


Next ==
    \/ Recover
    \/ AlignChannel
    \/ AllStop
    \/ DefineWindow
    \/ DefineChannel
    \/ CueMedia
    \/ ChangeState
    \/ ResizeChannel
    \/ Seek
    \/ Close
    \/ \E p \in Requesters : Submit(p)
    \/ \E p \in Requesters : Respond(p)
    \/ Restart

Spec == Init /\ [][Next]_vars

(***************************************************************************)
(* The backup as the test of backup_handler.rs drives it: windows,         *)
(* channels and cues are backed up against an empty store that answers     *)
(* every command.                                                          *)
(***************************************************************************)
InitBackup == InitIn({"backup"}, {{}})

NextBackup ==
    \/ Recover
    \/ DefineWindow
    \/ DefineChannel
    \/ CueMedia
    \/ \E p \in Requesters : Submit(p)
    \/ \E p \in Requesters : Respond(p)

SpecBackup == InitBackup /\ [][NextBackup]_vars

(***************************************************************************)
(* The program started next to a store that holds keys of this node: what  *)
(* an earlier process, or anything else that writes to the server, left.   *)
(***************************************************************************)
InitReload ==
    /\ scope = "reload"
    /\ faults = {}
    /\ server_location \in BOOLEAN
    /\ phase = "boot"
    /\ windows = {}
    /\ media_playback = NewMediaPlayback
    /\ \E connect_ok \in Outcomes : backup_handler = new(server_location, connect_ok)
    /\ store \in LingeringStores
    /\ web_receive = <<>>
    /\ rx = [p \in Requesters |-> "idle"]
    /\ trace = <<>>
    /\ restarts = 0
    /\ before_stop = NoStop

SpecReload == InitReload /\ [][Next]_vars

(***************************************************************************)
(* The program started next to the record of an earlier process, with a    *)
(* driver whose calls can fail.                                            *)
(***************************************************************************)
InitReplay ==
    /\ scope = "replay"
    /\ faults = {"driver"}
    /\ server_location = TRUE
    /\ phase = "boot"
    /\ windows = {}
    /\ media_playback = NewMediaPlayback
    /\ \E connect_ok \in Outcomes : backup_handler = new(server_location, connect_ok)
    /\ store \in RecordedStores
    /\ web_receive = <<>>
    /\ rx = [p \in Requesters |-> "idle"]
    /\ trace = <<>>
    /\ restarts = 0
    /\ before_stop = NoStop

\* one process: the recovery and the requests after it
NextReplay ==
    \/ Recover
    \/ AlignChannel
    \/ AllStop
    \/ DefineWindow
    \/ DefineChannel
    \/ CueMedia
    \/ ChangeState
    \/ ResizeChannel
    \/ Seek
    \/ Close
    \/ \E p \in Requesters : Submit(p)
    \/ \E p \in Requesters : Respond(p)

SpecReplay == InitReplay /\ [][NextReplay]_vars

(***************************************************************************)
(* The program with the cues, the states, the seeks and the time of the    *)
(* media, against a store that answers every command.                      *)
(***************************************************************************)
InitSeek == InitIn({"seek"}, {{}})

SpecSeek == InitSeek /\ [][Next]_vars

InitMedia == InitIn({"media"}, {{}})

SpecMedia == InitMedia /\ [][Next]_vars

(***************************************************************************)
(* The program built with overflow checks (the default of a debug build),  *)
(* with the frames: an i32 operation that overflows panics.                *)
(***************************************************************************)
InitChecked == InitIn({"geometry"}, {{"overflow"}})

SpecChecked == InitChecked /\ [][Next]_vars

(***************************************************************************)
(* The running program with its scheduling: the runtime keeps polling the  *)
(* task of the system interface and the tasks of the requests, so the      *)
(* recovery, the handling of a queued request and the response to a        *)
(* settled request each happen once they can.                              *)
(***************************************************************************)
InitWeb == InitIn({"web"}, {{}})

Dispatch ==
    \/ AlignChannel
    \/ AllStop
    \/ DefineWindow
    \/ DefineChannel
    \/ CueMedia
    \/ ChangeState
    \/ ResizeChannel
    \/ Seek
    \/ Close

NextLive ==
    \/ Recover
    \/ Dispatch
    \/ \E p \in Requesters : Submit(p)
    \/ \E p \in Requesters : Respond(p)

SpecLive ==
    /\ InitWeb
    /\ [][NextLive]_vars
    /\ WF_vars(Recover)
    /\ WF_vars(Dispatch)
    /\ \A p \in 1..MaxRequesters : WF_vars(Respond(p))

(***************************************************************************)
(* Reading a step: trace' holds what the step did, in program order.       *)
(***************************************************************************)
\* the step handled a request of this kind
Took(name) == trace' # <<>> /\ trace'[1].op = "recv" /\ trace'[1].name = name

\* the replies the step sent
Replies == FxOf(trace', "reply")

\* the step sent one reply, and it tells success (or failure)
RepliedSuccess == Len(Replies) = 1 /\ Replies[1].ok

RepliedFailure == Len(Replies) = 1 /\ ~Replies[1].ok

\* the step is the recovery
Recovered == phase = "boot" /\ phase' = "serving"

\* the numbers of the entries of one kind in a trace, in order
Numbers(tr, op, name) ==
    LET picked == SelectSeq(tr, LAMBDA e : e.op = op /\ e.name = name)
    IN  [i \in 1..Len(picked) |-> picked[i].num]

\* the window numbers, or the channel numbers, of a list of definitions
WindowNumbersOf(list) == [i \in 1..Len(list) |-> list[i].window_number]

ChannelNumbersOf(list) == [i \in 1..Len(list) |-> list[i].channel]

\* what reload_backup returns when the store answers every command
AllOk == [i \in 1..3 |-> TRUE]

Snapshot(bh) ==
    [window_list |-> bh.window_list,
     channel_list |-> bh.channel_list,
     media_playlist |-> bh.media_playlist]

(***************************************************************************)
(* C1.  Within a run of the program a window number is accepted at most    *)
(* once.  A DefineWindow request gets a success reply exactly when its     *)
(* number is not yet in the dispatcher's set of windows, and the number is *)
(* in the set afterwards; the set never loses a number while the program   *)
(* serves; the recovery puts every window it replays into the set and      *)
(* replays no number twice.  A DefineWindow for a number already in the    *)
(* set gets a failure reply and leaves the set, the backed-up window list  *)
(* and the windows key of the store as they were.                          *)
(***************************************************************************)
C1_DefineWindowOnce ==
    [][ /\ Took("DefineWindow") =>
              LET n == trace'[1].num
              IN  /\ Len(Replies) = 1
                  /\ Replies[1].ok <=> n \notin windows
                  /\ n \in windows'
                  /\ n \in windows =>
                        /\ RepliedFailure
                        /\ windows' = windows
                        /\ backup_handler'.window_list = backup_handler.window_list
                        /\ store'.windows = store.windows
        /\ (phase = "serving" /\ phase' = "serving") => windows \subseteq windows'
        /\ Recovered =>
              LET replayed == Numbers(trace', "send", "Window")
              IN  /\ \A i \in DOMAIN replayed : replayed[i] \in windows'
                  /\ \A i, j \in DOMAIN replayed : i # j => replayed[i] # replayed[j]
      ]_vars

\* a DefineWindow was refused after a restart for a window the backup holds
C1_Witness ==
    /\ restarts = 1
    /\ phase = "serving"
    /\ Len(trace) = 2
    /\ trace[1].op = "recv" /\ trace[1].name = "DefineWindow"
    /\ trace[2].op = "reply" /\ ~trace[2].ok
    /\ trace[1].num \in windows
    /\ \E i \in DOMAIN backup_handler.window_list :
          backup_handler.window_list[i].window_number = trace[1].num

C3_CrashResume ==
    [][ (/\ Recovered
         /\ faults = {}
         /\ before_stop.connection
         /\ backup_handler.connection)
        => /\ before_stop.windows \subseteq windows'
           /\ before_stop.channels \subseteq DOMAIN media_playback'.channels
      ]_vars

(***************************************************************************)
(* C4.  Every request the dispatcher takes gets exactly one reply on its   *)
(* reply channel.                                                          *)
(***************************************************************************)
C4_ExactlyOneReply ==
    (trace # <<>> /\ trace[1].op = "recv") => Len(FxOf(trace, "reply")) = 1

(***************************************************************************)
(* C5.  Every request submitted through the web layer gets a response:     *)
(* once a requester has submitted (its reply handle is queued, answered or *)
(* dropped), its HTTP response goes out eventually, with status 200, 400   *)
(* or 500.                                                                 *)
(***************************************************************************)
C5_EveryRequestAnswered ==
    \A p \in 1..MaxRequesters :
        (rx[p] # "idle")
            ~> (\E status \in {200, 400, 500} : trace = <<Responded(p, status)>>)

\* after a Close that left the requests of two requesters unanswered, one
\* of them has got the fallback response and the other still holds a dropped
\* reply handle
C5_Witness ==
    /\ phase = "closed"
    /\ \E p, q \in Requesters :
          /\ p # q
          /\ rx[q] = "dropped"
          /\ trace = <<Responded(p, 500)>>

(***************************************************************************)
(* C6.  When Close is handled while the handler holds a connection and     *)
(* the store answers every command, the handler issues one del for each of *)
(* the three keys and nothing else, every del succeeds whether or not the  *)
(* key was there, and afterwards the three keys are absent.                *)
(***************************************************************************)
C6_CloseDeletesKeys ==
    [][ (Took("Close") /\ backup_handler.connection /\ "store" \notin faults) =>
          LET dels == FxOf(trace', "store")
          IN  /\ store' = EmptyStore
              /\ Len(trace') = 4
              /\ Len(dels) = 3
              /\ {dels[i].msg : i \in DOMAIN dels} = StoreKeys
              /\ \A i \in DOMAIN dels : dels[i].name = "del" /\ dels[i].ok
      ]_vars

\* a Close has deleted a key that was there and a key that never was
C6_Witness ==
    /\ phase = "closed"
    /\ store = EmptyStore
    /\ Len(trace) = 4
    /\ trace[1].op = "recv" /\ trace[1].name = "Close"
    /\ \E i, j \in 2..4 :
          /\ trace[i].name = "del" /\ trace[i].ok /\ trace[i].arg = 1
          /\ trace[j].name = "del" /\ trace[j].ok /\ trace[j].arg = 0

(***************************************************************************)
(* C7.  A ChangeState for a channel the driver does not have gets a        *)
(* failure reply, and the media map of the handler and the media key of    *)
(* the store stay as they were.                                            *)
(***************************************************************************)
C7_ChangeStateUndefined ==
    [][ (Took("ChangeState") /\ trace'[1].num \notin DOMAIN media_playback.channels) =>
          /\ RepliedFailure
          /\ backup_handler'.media_playlist = backup_handler.media_playlist
          /\ store'.media = store.media
      ]_vars

\* a ChangeState for channel 2 was refused while the media map holds a cue
\* of channel 1
C7_Witness ==
    /\ Len(trace) = 3
    /\ trace[1].op = "recv" /\ trace[1].name = "ChangeState" /\ trace[1].num = 2
    /\ trace[2].op = "driver" /\ ~trace[2].ok
    /\ trace[2].msg = "Unable to change state: Channel not defined."
    /\ trace[3].op = "reply" /\ ~trace[3].ok
    /\ 2 \notin DOMAIN media_playback.channels
    /\ DOMAIN backup_handler.media_playlist = {1}
    /\ IsSome(store.media)

(***************************************************************************)
(* C8.  A ChangeState for a channel that is defined but has no entry in    *)
(* the media map gets a failure reply that tells the channel is not known. *)
(***************************************************************************)
C8_ChangeStateWithoutEntry ==
    [][ (/\ Took("ChangeState")
         /\ backup_handler.connection
         /\ trace'[1].num \in DOMAIN media_playback.channels
         /\ trace'[1].num \notin DOMAIN backup_handler.media_playlist)
        => /\ RepliedFailure
           /\ Replies[1].msg = "Unable to change state: Channel not defined."
      ]_vars

(***************************************************************************)
(* C9.  An AlignChannel or a ResizeChannel for a backed-up channel gets a  *)
(* failure reply when the definition of the channel has no video frame,    *)
(* and a success reply when it has one.                                    *)
(***************************************************************************)
C9_FrameRequired ==
    [][ ((Took("AlignChannel") \/ Took("ResizeChannel")) /\ backup_handler.connection) =>
          \A i \in DOMAIN backup_handler.channel_list :
              LET channel == backup_handler.channel_list[i]
              IN  channel.channel = trace'[1].num =>
                      IF IsSome(channel.video_frame) THEN RepliedSuccess
                      ELSE RepliedFailure
      ]_vars

(***************************************************************************)
(* C10.  The recovery replays in the order of definition.  With a store    *)
(* that answers every command and a driver that answers every call: two    *)
(* windows the recovery sends to the notifier, and two channels it defines *)
(* on the driver, come in the order in which the stopped run had           *)
(* defined them; and the first recovery that replays at all replays        *)
(* exactly the window list and the channel list of the stopped run.        *)
(***************************************************************************)
\* the items s and t share come in the same order in both
SameOrder(s, t) ==
    \A i, j \in DOMAIN s, k, l \in DOMAIN t :
        (i < j /\ t[k] = s[i] /\ t[l] = s[j]) => k < l

C10_ReplayOrder ==
    [][ (Recovered /\ faults = {}) =>
          LET sent == Numbers(trace', "send", "Window")
              defined == Numbers(trace', "driver", "define_channel")
              window_list == WindowNumbersOf(before_stop.window_list)
              channel_list == ChannelNumbersOf(before_stop.channel_list)
          IN  /\ SameOrder(window_list, sent)
              /\ SameOrder(channel_list, defined)
              /\ (restarts = 1 /\ sent \o defined # <<>>) =>
                    /\ sent = window_list
                    /\ defined = channel_list
      ]_vars

\* a recovery has replayed windows 2 and 1 and channels 2 and 1 in that order
C10_Witness ==
    /\ phase = "serving"
    /\ restarts = 1
    /\ Numbers(trace, "send", "Window") = <<2, 1>>
    /\ Numbers(trace, "driver", "define_channel") = <<2, 1>>

(***************************************************************************)
(* C11.  Time never moves a position back.  For every entry of the media   *)
(* map and every elapsed time, also one the position cannot take, update   *)
(* gives a position that is not below the old one and not above the        *)
(* largest Duration, and that is the sum when the sum is a Duration; a     *)
(* step of the program that advances the time leaves every entry it does   *)
(* not cue or seek at a position not below the old one; and no position of *)
(* the media map is ever above the largest Duration.                       *)
(***************************************************************************)
C11_SeekToMonotone ==
    [][ LET before == backup_handler.media_playlist
            after == backup_handler'.media_playlist
        IN  /\ \A c \in DOMAIN before, t \in 0..(DURATION_MAX + 1) :
                  LET updated == update(before[c], t).seek_to
                  IN  /\ updated >= before[c].seek_to
                      /\ updated <= DURATION_MAX
                      /\ before[c].seek_to + t <= DURATION_MAX =>
                            updated = before[c].seek_to + t
            /\ \A c \in DOMAIN before \cap DOMAIN after :
                  (/\ FxOf(trace', "clock") # <<>>
                   /\ ~((Took("CueMedia") \/ Took("Seek")) /\ trace'[1].num = c))
                  => after[c].seek_to >= before[c].seek_to
            /\ \A c \in DOMAIN after : after[c].seek_to \in 0..DURATION_MAX
      ]_vars

\* a ChangeState has advanced the time by more than any position can take,
\* and the entry of its channel has kept a position above zero
C11_Witness ==
    /\ Len(trace) = 5
    /\ trace[1].op = "recv" /\ trace[1].name = "ChangeState"
    /\ trace[3].op = "clock" /\ trace[3].arg = DURATION_MAX + 1
    /\ trace[4].op = "store" /\ trace[4].ok
    /\ trace[1].num \in DOMAIN backup_handler.media_playlist
    /\ backup_handler.media_playlist[trace[1].num].seek_to > 0

(***************************************************************************)
(* C12.  A failure of the store does not reach the requester.  A request   *)
(* whose handler issued a set command that failed still gets a success     *)
(* reply; a request whose driver calls all succeeded gets a success reply  *)
(* whatever the store did; and after such a request the dispatcher still   *)
(* serves, with the rest of the queue in front of it.                      *)
(***************************************************************************)
C12_StoreFailureHidden ==
    [][ LET sets == SelectSeq(trace', LAMBDA e : e.op = "store" /\ e.name = "set")
            calls == FxOf(trace', "driver")
            took == trace' # <<>> /\ trace'[1].op = "recv" /\ ~Took("Close")
        IN  /\ (took /\ \E i \in DOMAIN sets : ~sets[i].ok) =>
                  /\ RepliedSuccess
                  /\ phase' = "serving"
                  /\ web_receive' = Tail(web_receive)
            /\ (took /\ calls # <<>> /\ \A i \in DOMAIN calls : calls[i].ok) =>
                  /\ RepliedSuccess
                  /\ phase' = "serving"
                  /\ web_receive' = Tail(web_receive)
      ]_vars

\* a CueMedia whose set command failed has got its success reply
C12_Witness ==
    /\ phase = "serving"
    /\ Len(trace) = 5
    /\ trace[1].op = "recv" /\ trace[1].name = "CueMedia"
    /\ trace[2].op = "driver" /\ trace[2].ok
    /\ trace[4].op = "store" /\ trace[4].name = "set" /\ ~trace[4].ok
    /\ trace[5].op = "reply" /\ trace[5].ok
    /\ store.media = None
    /\ backup_handler.media_playlist # EmptyMap

(***************************************************************************)
(* C13.  A request that gets a failure reply changes nothing of the        *)
(* backup: the window list, the channel list and the media map of the      *)
(* handler, the three keys of the store and the dispatcher's set of        *)
(* windows are what they were, and no store command was issued.            *)
(***************************************************************************)
C13_FailureChangesNothing ==
    [][ (trace' # <<>> /\ trace'[1].op = "recv" /\ RepliedFailure) =>
          /\ backup_handler'.window_list = backup_handler.window_list
          /\ backup_handler'.channel_list = backup_handler.channel_list
          /\ backup_handler'.media_playlist = backup_handler.media_playlist
          /\ store' = store
          /\ windows' = windows
          /\ FxOf(trace', "store") = <<>>
      ]_vars

\* a ChangeState the driver failed on, for a channel that has an entry in
\* the media map, has got its failure reply
C13_Witness ==
    /\ Len(trace) = 3
    /\ trace[1].op = "recv" /\ trace[1].name = "ChangeState"
    /\ trace[2].op = "driver" /\ ~trace[2].ok
    /\ trace[3].op = "reply" /\ ~trace[3].ok
    /\ trace[1].num \in DOMAIN media_playback.channels
    /\ trace[1].num \in DOMAIN backup_handler.media_playlist
    /\ backup_handler.media_playlist[trace[1].num].state # trace[1].msg
    /\ IsSome(store.media)

(***************************************************************************)
(* C14.  One request at a time, in the order received.  A submitted        *)
(* request goes to the end of the queue and leaves the requests before it  *)
(* in their order; a step of the dispatcher handles one request, the one   *)
(* at the head of the queue: its effects begin with the taking of that     *)
(* request and hold no other taking, its reply is the last of them and     *)
(* goes to the requester at the head, the queue afterwards is the rest of  *)
(* the queue, and no other requester's reply handle is touched.            *)
(***************************************************************************)
C14_OneAtATimeInOrder ==
    [][ /\ (trace' # <<>> /\ trace'[1].op = "recv" /\ ~Took("Close")) =>
              /\ Len(FxOf(trace', "recv")) = 1
              /\ Len(Replies) = 1
              /\ trace'[Len(trace')].op = "reply"
              /\ trace'[Len(trace')].num = Head(web_receive)
              /\ web_receive' = Tail(web_receive)
              /\ \A p \in Requesters \ {Head(web_receive)} : rx'[p] = rx[p]
        /\ (phase' = phase /\ Len(web_receive') > Len(web_receive)) =>
              /\ Len(web_receive') = Len(web_receive) + 1
              /\ SubSeq(web_receive', 1, Len(web_receive)) = web_receive
              /\ trace' = <<>>
        /\ (phase = "serving" /\ phase' = "serving"
              /\ Len(web_receive') < Len(web_receive)) =>
              trace' # <<>> /\ trace'[1].op = "recv"
      ]_vars

\* requester 2 submitted before requester 1 and has been answered first
C14_Witness ==
    /\ phase = "serving"
    /\ trace # <<>>
    /\ trace[1].op = "recv"
    /\ trace[Len(trace)].op = "reply" /\ trace[Len(trace)].num = 2
    /\ web_receive = <<1>>
    /\ rx[1] = "waiting"

(***************************************************************************)
(* C15: the dispatch loop ends exactly when a Close request is dequeued.   *)
(* A step that takes Close off the queue leaves the loop ended; a step     *)
(* that takes any other request off the queue leaves it running, whatever  *)
(* the driver or the store answered; and once the loop has ended no        *)
(* request is taken off the queue until the process is started again.      *)
(***************************************************************************)
C15_OnlyCloseEndsLoop ==
    [][ /\ Took("Close") => phase' = "closed"
        /\ (trace' # <<>> /\ trace'[1].op = "recv" /\ ~Took("Close")) =>
              phase' = "serving"
        /\ (phase = "serving" /\ phase' = "closed") => Took("Close")
        /\ phase = "closed" => ~(trace' # <<>> /\ trace'[1].op = "recv")
      ]_vars

(***************************************************************************)
(* C16: the step that processes Close sends the close event to the         *)
(* notifier, and, when the handler holds a connection, issues the deletes  *)
(* of the node's keys.                                                     *)
(***************************************************************************)
C16_CloseNotifies ==
    [][ Took("Close") =>
          /\ \E i \in DOMAIN trace' :
                trace'[i].op = "send" /\ trace'[i].name = "Close"
          /\ backup_handler.connection =>
                \E i \in DOMAIN trace' :
                   trace'[i].op = "store" /\ trace'[i].name = "del"
      ]_vars

\* the place of an effect in the recovery: reload, window replay, channel
\* replay, cue, settle delay, seek, state change; 0 for what is no part of it
RecoveryStage(e) ==
    CASE e.op = "store" /\ e.name = "get" -> 1
      [] e.op = "send" /\ e.name = "Window" -> 2
      [] e.op = "driver" /\ e.name = "define_channel" -> 3
      [] e.op = "send" /\ e.name = "Video" -> 3
      [] e.op = "driver" /\ e.name = "cue_media" -> 4
      [] e.op = "sleep" -> 5
      [] e.op = "driver" /\ e.name = "seek" -> 6
      [] e.op = "driver" /\ e.name = "seek_simple" -> 6
      [] e.op = "driver" /\ e.name = "query_duration" -> 6
      [] e.op = "driver" /\ e.name = "change_state" -> 7
      [] OTHER -> 0

(***************************************************************************)
(* C17: the recovery is over before the first request is dequeued.  While  *)
(* the process has not finished its recovery no step takes a request off   *)
(* the queue, and the requests that arrive are kept in their order; the    *)
(* recovery step runs its stages in order (reload, windows, channels,      *)
(* cues, settle delay, seeks, state changes), touches no request, and      *)
(* leaves the dispatcher serving; and only a new start of the process      *)
(* brings the recovery back.                                               *)
(***************************************************************************)
C17_RecoveryBeforeRequests ==
    [][ /\ phase = "boot" =>
              /\ \A i \in DOMAIN trace' : trace'[i].op \notin {"recv", "reply"}
              /\ restarts' = restarts =>
                    /\ Len(web_receive') >= Len(web_receive)
                    /\ SubSeq(web_receive', 1, Len(web_receive)) = web_receive
        /\ Recovered =>
              /\ \A i \in DOMAIN trace' : RecoveryStage(trace'[i]) > 0
              /\ \A i, j \in DOMAIN trace' :
                    i < j => RecoveryStage(trace'[i]) <= RecoveryStage(trace'[j])
              /\ web_receive' = web_receive
              /\ rx' = rx
        /\ (trace' # <<>> /\ RecoveryStage(trace'[1]) = 1) => Recovered
        /\ (phase # "boot" /\ phase' = "boot") => restarts' = restarts + 1
      ]_vars

\* a recovery has just replayed a window, a channel, a cue, the delay, a seek
\* and a state change, and a request that arrived meanwhile is still queued
C17_Witness ==
    /\ phase = "serving"
    /\ web_receive # <<>>
    /\ \A stage \in 1..7 : \E i \in DOMAIN trace : RecoveryStage(trace[i]) = stage

(***************************************************************************)
(* C18: in every reachable state, also after a recovery in which the       *)
(* driver did not re-define a recovered channel, the channel list of the   *)
(* backup handler holds each channel number at most once.                  *)
(***************************************************************************)
C18_ChannelListDistinct ==
    \A i, j \in DOMAIN backup_handler.channel_list :
       i # j => backup_handler.channel_list[i].channel
                    # backup_handler.channel_list[j].channel

(***************************************************************************)
(* C19: every channel of the backed-up channel list that carries a video   *)
(* frame names a window that is defined: its window number is in the       *)
(* window registry of the system interface.  A DefineChannel whose frame   *)
(* names an undefined window would have to be refused for this to hold.    *)
(***************************************************************************)
C19_FramedChannelHasWindow ==
    \A i \in DOMAIN backup_handler.channel_list :
       IsSome(backup_handler.channel_list[i].video_frame) =>
          Unwrap(backup_handler.channel_list[i].video_frame).window_number \in windows

(***************************************************************************)
(* C20: a handler without a store connection does nothing.  In every step  *)
(* of a process whose handler has no connection (requests, recovery, the   *)
(* drop at Close) no store command is issued, the store keeps its keys,    *)
(* the handler's window list, channel list and playlist stay as they are   *)
(* and the handler stays unconnected; the recovery gets nothing from       *)
(* reload_backup and replays nothing.                                      *)
(***************************************************************************)
C20_NoConnectionNoBackup ==
    [][ (~backup_handler.connection /\ restarts' = restarts) =>
          /\ store' = store
          /\ backup_handler' = backup_handler
          /\ \A i \in DOMAIN trace' : trace'[i].op # "store"
          /\ Recovered =>
                trace' = <<>> /\ windows' = windows /\ media_playback' = media_playback
      ]_vars

\* a process started without a connection next to a store that holds a
\* channel list has accepted a channel definition and kept nothing of it
C20_Witness ==
    /\ ~backup_handler.connection
    /\ phase = "serving"
    /\ backup_handler.channel_list = <<>>
    /\ IsSome(store.channels)
    /\ trace # <<>>
    /\ trace[1].op = "recv" /\ trace[1].name = "DefineChannel"
    /\ trace[Len(trace)].op = "reply" /\ trace[Len(trace)].ok

(***************************************************************************)
(* C21: a CueMedia that the driver accepted, with a store connection,      *)
(* leaves for its channel exactly the entry {media_cue: the cue of the     *)
(* request, seek_to: 0, state: Playing}, whatever entry the channel had    *)
(* before; every entry of the map is filed under the channel of its cue.   *)
(***************************************************************************)
C21_CueReplacesEntry ==
    [][ (Took("CueMedia") /\ RepliedSuccess /\ backup_handler.connection) =>
          LET channel == trace'[1].num
              playlist == backup_handler'.media_playlist
          IN  /\ channel \in DOMAIN playlist
              /\ playlist[channel] =
                    [media_cue |-> [channel |-> channel, uri |-> trace'[1].msg,
                                    loop_media |-> None],
                     seek_to |-> 0, state |-> "Playing"]
              /\ \A c \in DOMAIN playlist : playlist[c].media_cue.channel = c
              /\ DOMAIN playlist = DOMAIN backup_handler.media_playlist \cup {channel}
      ]_vars

\* new_video.mp4 has just been cued on channel 1, whose entry is fresh, while
\* the entry of channel 2 is paused at a later position
C21_Witness ==
    /\ trace # <<>>
    /\ trace[1].op = "recv" /\ trace[1].name = "CueMedia" /\ trace[1].num = 1
    /\ trace[1].msg = "new_video.mp4"
    /\ trace[Len(trace)].op = "reply" /\ trace[Len(trace)].ok
    /\ DOMAIN backup_handler.media_playlist = {1, 2}
    /\ backup_handler.media_playlist[1].seek_to = 0
    /\ backup_handler.media_playlist[1].state = "Playing"
    /\ backup_handler.media_playlist[2].state = "Paused"
    /\ backup_handler.media_playlist[2].seek_to > 0

C23_StateOnly ==
    [][ (/\ Took("ChangeState") /\ RepliedSuccess /\ backup_handler.connection
         /\ trace'[1].num \in DOMAIN backup_handler.media_playlist) =>
          LET channel == trace'[1].num
              before == backup_handler.media_playlist
              after == backup_handler'.media_playlist
          IN  /\ DOMAIN after = DOMAIN before
              /\ after[channel] = [before[channel] EXCEPT !.state = trace'[1].msg]
              /\ \A c \in DOMAIN before \ {channel} : after[c] = before[c]
      ]_vars

(***************************************************************************)
(* C23, amended: such a ChangeState sets the state of the entry and        *)
(* advances the seek_to of every entry, the changed one included, by the   *)
(* time since the last advance; the cues are as before and no entry comes  *)
(* or goes.                                                                *)
(***************************************************************************)
C23_StateAndTime ==
    [][ (/\ Took("ChangeState") /\ RepliedSuccess /\ backup_handler.connection
         /\ trace'[1].num \in DOMAIN backup_handler.media_playlist) =>
          LET channel == trace'[1].num
              elapsed == trace'[3].arg
              before == backup_handler.media_playlist
              after == backup_handler'.media_playlist
          IN  /\ trace'[3].op = "clock"
              /\ DOMAIN after = DOMAIN before
              /\ after[channel] =
                    [update(before[channel], elapsed) EXCEPT !.state = trace'[1].msg]
              /\ \A c \in DOMAIN before \ {channel} :
                    after[c] = update(before[c], elapsed)
      ]_vars

\* channel 1 has been paused one unit of time after the last advance, and
\* both entries have moved on
C23_Witness ==
    /\ trace # <<>>
    /\ trace[1].op = "recv" /\ trace[1].name = "ChangeState" /\ trace[1].num = 1
    /\ trace[1].msg = "Paused"
    /\ Len(trace) >= 3 /\ trace[3].op = "clock" /\ trace[3].arg = 1
    /\ trace[Len(trace)].op = "reply" /\ trace[Len(trace)].ok
    /\ DOMAIN backup_handler.media_playlist = {1, 2}
    /\ backup_handler.media_playlist[1].state = "Paused"
    /\ backup_handler.media_playlist[1].seek_to = 1
    /\ backup_handler.media_playlist[2].seek_to = 1

(***************************************************************************)
(* C24: the time advance moves only the media that is playing.  An entry   *)
(* whose state is Paused keeps its seek_to in every step, unless the step  *)
(* is a Seek or a CueMedia for its channel.                                *)
(***************************************************************************)
C24_PausedKeepsPosition ==
    [][ \A c \in DOMAIN backup_handler.media_playlist
                 \cap DOMAIN backup_handler'.media_playlist :
          (/\ backup_handler.media_playlist[c].state = "Paused"
           /\ ~((Took("Seek") \/ Took("CueMedia")) /\ trace'[1].num = c)) =>
             backup_handler'.media_playlist[c].seek_to
                 = backup_handler.media_playlist[c].seek_to
      ]_vars

(***************************************************************************)
(* C25, as stated: a media persist (cue, state change, seek) first adds    *)
(* the elapsed time to the seek_to of every entry with a saturating        *)
(* addition: the entries it does not cue or seek end at                    *)
(* min(old + elapsed, largest Duration).                                   *)
(***************************************************************************)
C25_AdvanceSaturates ==
    [][ \A c \in DOMAIN backup_handler.media_playlist :
          (/\ FxOf(trace', "clock") # <<>>
           /\ ~((Took("CueMedia") \/ Took("Seek")) /\ trace'[1].num = c)) =>
             LET old == backup_handler.media_playlist[c].seek_to
                 elapsed == FxOf(trace', "clock")[1].arg
             IN  /\ c \in DOMAIN backup_handler'.media_playlist
                 /\ backup_handler'.media_playlist[c].seek_to =
                       IF old + elapsed > DURATION_MAX THEN DURATION_MAX
                       ELSE old + elapsed
      ]_vars

(***************************************************************************)
(* C25, amended: a media persist (cue, state change, seek) runs the time   *)
(* advance once, before it writes, and the advance adds the elapsed time   *)
(* to the seek_to of every entry with a checked addition: the entries it   *)
(* does not cue or seek end at old + elapsed when that is a Duration and   *)
(* keep the old value when it is not.                                      *)
(***************************************************************************)
C25_AdvanceKeepsOnOverflow ==
    [][ /\ (/\ Took("CueMedia") \/ Took("ChangeState") \/ Took("Seek")
            /\ RepliedSuccess /\ backup_handler.connection) =>
              /\ Len(FxOf(trace', "clock")) = 1
              /\ \A i \in DOMAIN trace' :
                    trace'[i].op = "store" =>
                       \E j \in 1..(i - 1) : trace'[j].op = "clock"
        /\ \A c \in DOMAIN backup_handler.media_playlist :
              (/\ FxOf(trace', "clock") # <<>>
               /\ ~((Took("CueMedia") \/ Took("Seek")) /\ trace'[1].num = c)) =>
                 LET old == backup_handler.media_playlist[c].seek_to
                     elapsed == FxOf(trace', "clock")[1].arg
                 IN  /\ c \in DOMAIN backup_handler'.media_playlist
                     /\ backup_handler'.media_playlist[c].seek_to =
                           IF old + elapsed > DURATION_MAX THEN old
                           ELSE old + elapsed
      ]_vars

\* a cue on channel 2 came after more time than a position can take, and the
\* entry of channel 1 has stayed at 1, below the largest Duration
C25_Witness ==
    /\ trace # <<>>
    /\ trace[1].op = "recv" /\ trace[1].name = "CueMedia" /\ trace[1].num = 2
    /\ FxOf(trace, "clock") # <<>>
    /\ FxOf(trace, "clock")[1].arg = DURATION_MAX + 1
    /\ DOMAIN backup_handler.media_playlist = {1, 2}
    /\ backup_handler.media_playlist[1].seek_to = 1
    /\ DURATION_MAX > 1

(***************************************************************************)
(* C26: AllStop touches neither the registry nor the backup.  The step     *)
(* that serves it is the driver call and the reply, a success reply when   *)
(* the driver stopped everything and a failure reply when it did not; it   *)
(* sends no notifier event and no store command, and the window registry,  *)
(* the defined channels, the window list, the channel list, every playback *)
(* entry and the store are as before.                                      *)
(***************************************************************************)
C26_AllStopTouchesNothing ==
    [][ Took("AllStop") =>
          /\ Len(trace') = 3
          /\ trace'[2].op = "driver" /\ trace'[2].name = "all_stop"
          /\ trace'[3].op = "reply" /\ trace'[3].ok = trace'[2].ok
          /\ backup_handler' = backup_handler
          /\ store' = store
          /\ windows' = windows
          /\ DOMAIN media_playback'.channels = DOMAIN media_playback.channels
          /\ phase' = phase
      ]_vars

\* the driver has failed to stop the media, the requester has the failure,
\* and the playback entry is still there, in the handler and in the store
C26_Witness ==
    /\ Len(trace) = 3
    /\ trace[1].op = "recv" /\ trace[1].name = "AllStop"
    /\ ~trace[2].ok /\ ~trace[3].ok
    /\ DOMAIN backup_handler.media_playlist # {}
    /\ IsSome(store.media)
    /\ backup_handler.channel_list # <<>>

(***************************************************************************)
(* C27: what reload_backup returns hangs on the media key alone.  Against  *)
(* a store that answers, the reload of a recovery returns nothing exactly  *)
(* when the handler has no connection or the media key is absent, whether  *)
(* the windows key and the channels key are there or not; with the media   *)
(* key present it returns the three components and the handler keeps them. *)
(* The recovery issues get commands only, and the store is as before.      *)
(***************************************************************************)
C27_ReloadHangsOnMediaKey ==
    [][ Recovered =>
          LET reload == reload_backup(backup_handler, store, AllOk)
          IN  /\ IsSome(reload.result)
                    <=> (backup_handler.connection /\ IsSome(store["media"]))
              /\ IsSome(reload.result) =>
                    /\ Snapshot(backup_handler') = Unwrap(reload.result)
                    /\ Len(FxOf(trace', "store")) = 3
              /\ ~IsSome(reload.result) =>
                    /\ backup_handler' = backup_handler
                    /\ Len(FxOf(trace', "store")) <= 1
                    /\ windows' = windows /\ media_playback' = media_playback
              /\ \A i \in DOMAIN trace' :
                    trace'[i].op = "store" => trace'[i].name = "get"
              /\ store' = store
      ]_vars

\* a recovery has found the windows key and the channels key without the
\* media key, and has left the windows, the channels and the handler empty
C27_Witness ==
    /\ phase = "serving"
    /\ restarts = 0
    /\ backup_handler.connection
    /\ Len(trace) = 1 /\ trace[1].op = "store" /\ trace[1].name = "get"
    /\ ~IsSome(store["media"])
    /\ IsSome(store["windows"]) /\ IsSome(store["channels"])
    /\ windows = {}
    /\ backup_handler.window_list = <<>>

\* what a key of the store gives when it is read for itself: its list, or
\* the empty list when the key is missing or unreadable
StoredList(key) == ParsedList(store[key])

C29_ConnectionReturned ==
    [][ /\ (backup_handler.connection /\ restarts' = restarts /\ ~Took("Close"))
              => backup_handler'.connection
        /\ Took("Close") => ~backup_handler'.connection
        /\ (~backup_handler.connection /\ restarts' = restarts)
              => ~backup_handler'.connection
      ]_vars

\* a ChangeState for a channel without a playback entry has advanced the
\* time, written nothing, and left the connection in the handler
C29_Witness ==
    /\ phase = "serving"
    /\ backup_handler.connection
    /\ trace # <<>>
    /\ trace[1].op = "recv" /\ trace[1].name = "ChangeState"
    /\ trace[Len(trace)].op = "reply" /\ trace[Len(trace)].ok
    /\ FxOf(trace, "clock") # <<>>
    /\ FxOf(trace, "store") = <<>>
    /\ trace[1].num \notin DOMAIN backup_handler.media_playlist

\* the places of the driver calls of this name for this channel in the
\* effects of a step
CallsAt(tr, name, channel) ==
    {i \in DOMAIN tr : tr[i].op = "driver" /\ tr[i].name = name /\ tr[i].num = channel}

(***************************************************************************)
(* C30: the order of the phases of restore_playlist.  In a recovery that   *)
(* reloaded a playlist there is one settle delay; every entry is cued once *)
(* and before the delay; every entry is sought once, after the delay (and  *)
(* so after every cue); a state change is issued, once, for exactly the    *)
(* entries whose stored state is not Playing, and after every seek.  For   *)
(* one channel that is cue, then seek, then the state change if any.       *)
(***************************************************************************)
C30_RecoveryPhaseOrder ==
    [][ (Recovered /\ Len(FxOf(trace', "store")) = 3) =>
          LET playlist == backup_handler'.media_playlist
              slept == {i \in DOMAIN trace' : trace'[i].op = "sleep"}
          IN  /\ Cardinality(slept) = 1
              /\ \A i \in DOMAIN trace' :
                    (trace'[i].op = "driver"
                       /\ trace'[i].name \in {"cue_media", "seek", "change_state"})
                    => trace'[i].num \in DOMAIN playlist
              /\ \A c \in DOMAIN playlist :
                    /\ Cardinality(CallsAt(trace', "cue_media", c)) = 1
                    /\ Cardinality(CallsAt(trace', "seek", c)) = 1
                    /\ Cardinality(CallsAt(trace', "change_state", c)) =
                          IF playlist[c].state # "Playing" THEN 1 ELSE 0
                    /\ \A i \in CallsAt(trace', "cue_media", c), d \in slept : i < d
                    /\ \A i \in CallsAt(trace', "seek", c), d \in slept : d < i
                    /\ \A e \in DOMAIN playlist :
                          \A i \in CallsAt(trace', "seek", e),
                             j \in CallsAt(trace', "change_state", c) : i < j
      ]_vars

\* a recovery has restored two entries, one playing and one paused
C30_Witness ==
    /\ phase = "serving"
    /\ restarts > 0
    /\ DOMAIN backup_handler.media_playlist = {1, 2}
    /\ backup_handler.media_playlist[1].state = "Playing"
    /\ backup_handler.media_playlist[2].state = "Paused"
    /\ CallsAt(trace, "cue_media", 1) # {} /\ CallsAt(trace, "cue_media", 2) # {}
    /\ CallsAt(trace, "seek", 1) # {} /\ CallsAt(trace, "seek", 2) # {}
    /\ CallsAt(trace, "change_state", 2) # {}
    /\ CallsAt(trace, "change_state", 1) = {}
    /\ \E i \in DOMAIN trace : trace[i].op = "sleep"

(***************************************************************************)
(* C31: a step of the recovery that fails for one channel stops nothing.   *)
(* In a recovery that reloaded a backup, whatever the driver answers, the  *)
(* definition of every channel of the channel list is issued, the cue and  *)
(* the seek of every entry of the playlist are issued, the state change of *)
(* every entry that is not Playing is issued, and the step ends with the   *)
(* dispatcher serving.                                                     *)
(***************************************************************************)
C31_RecoveryGoesOn ==
    [][ (Recovered /\ Len(FxOf(trace', "store")) = 3) =>
          /\ \A i \in DOMAIN backup_handler'.channel_list :
                CallsAt(trace', "define_channel",
                        backup_handler'.channel_list[i].channel) # {}
          /\ \A c \in DOMAIN backup_handler'.media_playlist :
                /\ CallsAt(trace', "cue_media", c) # {}
                /\ CallsAt(trace', "seek", c) # {}
                /\ backup_handler'.media_playlist[c].state # "Playing" =>
                      CallsAt(trace', "change_state", c) # {}
          /\ phase' = "serving"
      ]_vars

\* the driver refused to define channel 1, its cue and its seek failed, and
\* channel 2 has been defined, cued, sought and paused all the same
C31_Witness ==
    /\ phase = "serving"
    /\ DOMAIN media_playback.channels = {2}
    /\ \E i \in CallsAt(trace, "define_channel", 1) : ~trace[i].ok
    /\ \E i \in CallsAt(trace, "cue_media", 1) : ~trace[i].ok
    /\ \E i \in CallsAt(trace, "seek", 1) : ~trace[i].ok
    /\ \E i \in CallsAt(trace, "define_channel", 2) : trace[i].ok
    /\ \E i \in CallsAt(trace, "cue_media", 2) : trace[i].ok
    /\ \E i \in CallsAt(trace, "seek", 2) : trace[i].ok
    /\ \E i \in CallsAt(trace, "change_state", 2) : trace[i].ok

\* C32: during recovery the position passed to the driver seek of every
\* recovered entry is the stored seek_to in milliseconds plus the settle
\* interval, whatever seek_to was recorded
C32_RecoverySeekPosition ==
    [][ Recovered =>
          LET playlist == backup_handler'.media_playlist
          IN  \A c \in DOMAIN playlist :
                \A i \in CallsAt(trace', "seek", c) :
                   trace'[i].arg = playlist[c].seek_to + DELAY_MILLIS
      ]_vars

\* C33: a seek on a defined channel whose media lasts D milliseconds asks the
\* playbin for the requested position P when P is less than D and for D minus
\* the end margin otherwise, and the target always lies between 0 and D
C33_SeekTargetWithinMedia ==
    \A i \in DOMAIN trace :
       (trace[i].op = "driver" /\ trace[i].name = "seek_simple")
       => LET D == trace[i - 1].arg
              P == trace[i - 2].arg
              target == trace[i].arg
          IN  /\ trace[i - 1].name = "query_duration"
              /\ trace[i - 2].name = "seek"
              /\ target = (IF P < D THEN P ELSE D - END_MARGIN)
              /\ target \in 0..D

\* the store commands of a step that write a key
SetsOf(tr, key) ==
    {i \in DOMAIN tr : tr[i].op = "store" /\ tr[i].name = "set" /\ tr[i].msg = key}

\* C34: every driver call, notification and store command of a request comes
\* before its reply, which ends the step, and the requester that is told of
\* a success finds the registry changed and, with a store connection, the
\* write of the key attempted
C34_WorkBeforeReply ==
    [][ (trace' # <<>> /\ trace'[1].op = "recv" /\ ~Took("Close")
           /\ phase' = "serving") =>
          LET n == trace'[1].num
              connected == backup_handler.connection
          IN  /\ \A i \in DOMAIN trace' :
                    trace'[i].op = "reply" <=> i = Len(trace')
              /\ rx'[Head(web_receive)] =
                    (IF trace'[Len(trace')].ok THEN "ok" ELSE "fail")
              /\ (Took("DefineWindow") /\ RepliedSuccess) =>
                    /\ n \in windows'
                    /\ trace'[2].op = "send"
                    /\ connected =>
                          /\ SetsOf(trace', "windows") # {}
                          /\ \E i \in DOMAIN backup_handler'.window_list :
                                backup_handler'.window_list[i].window_number = n
              /\ (Took("DefineChannel") /\ RepliedSuccess) =>
                    /\ n \in DOMAIN media_playback'.channels
                    /\ connected =>
                          /\ SetsOf(trace', "channels") # {}
                          /\ \E i \in DOMAIN backup_handler'.channel_list :
                                backup_handler'.channel_list[i].channel = n
              /\ (Took("CueMedia") /\ RepliedSuccess) =>
                    /\ n \in DOMAIN media_playback'.channels
                    /\ IsSome(media_playback'.channels[n].uri)
                    /\ connected =>
                          /\ SetsOf(trace', "media") # {}
                          /\ n \in DOMAIN backup_handler'.media_playlist
              /\ ((Took("ChangeState") \/ Took("Seek")) /\ RepliedSuccess
                    /\ connected /\ n \in DOMAIN backup_handler.media_playlist) =>
                    SetsOf(trace', "media") # {}
      ]_vars

\* a DefineChannel whose write of the channel list failed has got its
\* success reply after the failed write
C34_Witness ==
    /\ phase = "serving"
    /\ trace # <<>>
    /\ trace[1].op = "recv" /\ trace[1].name = "DefineChannel"
    /\ \E i \in SetsOf(trace, "channels") : ~trace[i].ok /\ i < Len(trace)
    /\ trace[Len(trace)].op = "reply" /\ trace[Len(trace)].ok
    /\ rx[trace[Len(trace)].num] = "ok"
    /\ trace[1].num \in DOMAIN media_playback.channels

\* the frame one pixel further in a direction, as an integer computes it
Moved(frame, direction) ==
    CASE direction = "Up" -> [frame EXCEPT !.top = @ - 1]
      [] direction = "Down" -> [frame EXCEPT !.top = @ + 1]
      [] direction = "Left" -> [frame EXCEPT !.left = @ - 1]
      [] direction = "Right" -> [frame EXCEPT !.left = @ + 1]

\* C35: an AlignChannel that is answered with success and written to the
\* store moves the backed-up frame of its channel by exactly one pixel in its
\* direction (Up: top - 1, Down: top + 1, Left: left - 1, Right: left + 1),
\* leaves width, height, window_number and every other channel as they were,
\* and Up followed by Down, and Left followed by Right, give the frame back
C35_OnePixelPerCall ==
    [][ (Took("AlignChannel") /\ RepliedSuccess /\ backup_handler.connection
           /\ \E i \in SetsOf(trace', "channels") : trace'[i].ok) =>
          LET before == backup_handler.channel_list
              after == backup_handler'.channel_list
              direction == trace'[1].msg
          IN  /\ Len(after) = Len(before)
              /\ StoredList("channels")' = after
              /\ \A i \in DOMAIN before :
                    IF before[i].channel = trace'[1].num
                       /\ IsSome(before[i].video_frame)
                    THEN LET frame == Unwrap(before[i].video_frame)
                         IN  /\ after[i] = [before[i] EXCEPT !.video_frame =
                                               Some(Moved(frame, direction))]
                             /\ Realign(Realign(frame, "Up"), "Down") = frame
                             /\ Realign(Realign(frame, "Left"), "Right") = frame
                    ELSE after[i] = before[i]
      ]_vars

IsPrefix(short, long) ==
    Len(short) <= Len(long) /\ SubSeq(long, 1, Len(short)) = short

\* C37: while the dispatch loop runs the window list and the channel list only
\* grow by appending: by number, the list before a step is a prefix of the
\* list after it, and a list grows only by the window or channel of a
\* definition that succeeded, put at its end
C37_ListsGrowByAppending ==
    [][ (phase = "serving" /\ phase' = "serving") =>
          /\ IsPrefix(WindowNumbersOf(backup_handler.window_list), WindowNumbersOf(backup_handler'.window_list))
          /\ IsPrefix(ChannelNumbersOf(backup_handler.channel_list), ChannelNumbersOf(backup_handler'.channel_list))
          /\ WindowNumbersOf(backup_handler'.window_list) # WindowNumbersOf(backup_handler.window_list) =>
                /\ Took("DefineWindow") /\ RepliedSuccess
                /\ WindowNumbersOf(backup_handler'.window_list) =
                      Append(WindowNumbersOf(backup_handler.window_list), trace'[1].num)
          /\ ChannelNumbersOf(backup_handler'.channel_list) # ChannelNumbersOf(backup_handler.channel_list) =>
                /\ Took("DefineChannel") /\ RepliedSuccess
                /\ ChannelNumbersOf(backup_handler'.channel_list) =
                      Append(ChannelNumbersOf(backup_handler.channel_list), trace'[1].num)
          /\ (Took("DefineWindow") /\ RepliedSuccess /\ backup_handler.connection) =>
                Len(backup_handler'.window_list) = Len(backup_handler.window_list) + 1
          /\ (Took("DefineChannel") /\ RepliedSuccess /\ backup_handler.connection) =>
                Len(backup_handler'.channel_list) = Len(backup_handler.channel_list) + 1
      ]_vars

\* channel 2 was defined before channel 1, and the list has them in that order
C37_Witness ==
    /\ phase = "serving"
    /\ trace # <<>> /\ trace[1].op = "recv" /\ trace[1].name = "DefineChannel"
    /\ trace[1].num = 1
    /\ trace[Len(trace)].op = "reply" /\ trace[Len(trace)].ok
    /\ ChannelNumbersOf(backup_handler.channel_list) = <<2, 1>>

\* C38: after a recovery that returned a snapshot the handler holds the
\* reloaded window list, channel list and playlist (the lists the recovery
\* replays and, for a key that was read, the lists of the store), and a
\* persist writes the list the handler holds followed by the new entry, so
\* that the first DefineWindow after the recovery stores the recovered
\* windows and the new one
C38_ReloadedListsKept ==
    [][ /\ (Recovered /\ Len(FxOf(trace', "store")) = 3) =>
              LET gets == FxOf(trace', "store")
                  bh == backup_handler'
              IN  /\ {bh.window_list[i].window_number :
                         i \in DOMAIN bh.window_list} = windows'
                  /\ ChannelNumbersOf(bh.channel_list) = Numbers(trace', "driver", "define_channel")
                  /\ DOMAIN bh.media_playlist =
                        {trace'[i].num : i \in {j \in DOMAIN trace' :
                             trace'[j].op = "driver" /\ trace'[j].name = "cue_media"}}
                  /\ gets[2].ok => bh.window_list = StoredList("windows")
                  /\ gets[3].ok => bh.channel_list = StoredList("channels")
        /\ (Took("DefineWindow") /\ RepliedSuccess
              /\ \E i \in SetsOf(trace', "windows") : trace'[i].ok) =>
              /\ Len(StoredList("windows")') = Len(backup_handler.window_list) + 1
              /\ SubSeq(StoredList("windows")', 1, Len(backup_handler.window_list))
                    = backup_handler.window_list
              /\ StoredList("windows")'[Len(backup_handler.window_list) + 1]
                    .window_number = trace'[1].num
      ]_vars

\* a recovery has returned a snapshot with a window, a channel and an entry
\* of the playlist, and the handler holds them
C38_Witness ==
    /\ phase = "serving"
    /\ Len(trace) > 3
    /\ \A i \in 1..3 : trace[i].op = "store" /\ trace[i].name = "get" /\ trace[i].ok
    /\ backup_handler.window_list # <<>>
    /\ backup_handler.window_list = StoredList("windows")
    /\ backup_handler.channel_list # <<>>
    /\ backup_handler.channel_list = StoredList("channels")
    /\ backup_handler.media_playlist # EmptyMap

\* C39: every channel number that is a key of the backed-up media playlist is
\* the number of a channel of the backed-up channel list
C39_PlaylistKeysAreChannels ==
    \A c \in DOMAIN backup_handler.media_playlist :
       \E i \in DOMAIN backup_handler.channel_list :
          backup_handler.channel_list[i].channel = c

\* C40: with a store connection, between two commands the window numbers
\* the dispatcher rejects as duplicates are the window numbers of the window
\* list of the backup handler, also after a recovery and after a failed write
C40_WindowsMatchWindowList ==
    backup_handler.connection =>
       windows = {backup_handler.window_list[i].window_number :
                     i \in DOMAIN backup_handler.window_list}

\* a DefineWindow whose write failed has left the window in the set and in
\* the list, and not in the store
C40_Witness ==
    /\ phase = "serving"
    /\ backup_handler.connection
    /\ trace # <<>> /\ trace[1].op = "recv" /\ trace[1].name = "DefineWindow"
    /\ \E i \in SetsOf(trace, "windows") : ~trace[i].ok
    /\ trace[1].num \in windows
    /\ WindowNumbersOf(backup_handler.window_list) = <<trace[1].num>>
    /\ store.windows = None

====
